---------------------------- MODULE Spec2Model ----------------------------
(***************************************************************************)
(* A model of src/src/macp/scheduler.py: the consensus detector, the       *)
(* question classifier, the role catalog and the debate / competition      *)
(* orchestrator of AICouncilScheduler.                                     *)
(*                                                                         *)
(* Texts are sequences of tokens.  A token stands for one maximal piece of *)
(* text the code looks at as a unit: a brace, a "NN%" figure, one of the   *)
(* fixed qualitative phrases, one JSON member, a keyword, a plain word.    *)
(* Chinese keywords and role names are written in pinyin.                  *)
(* Numbers the code computes as floats are exact fractions <<n, d>>, d > 0.*)
(***************************************************************************)
EXTENDS Integers, Sequences, FiniteSets, TLC

VARIABLES
    pc,                 \* position of the running handler
    mode,               \* "debate" | "competition" | "detector" | "classifier"
                        \* | "roles" | "fallback" | "parallel"
    config,             \* the Config fields the handlers read
    language,           \* CURRENT_LANGUAGE
    question,           \* the topic text
    role1, role2,       \* the role arguments, then the resolved role names
    question_analysis,  \* the result of analyze_question_type
    debate_round,       \* the list the handler returns: the transcript (list of
                        \* turns), the results of the parallel mode
    result1, result2,   \* the latest provider result of each side
    round_num,          \* the loop variable of the rebuttal loop
    consensus_reached,
    consensus_analysis,
    assessment,         \* the latest value returned by the consensus detector
    coord_response,     \* the latest provider result of the coordinator
    consensus_prompt,   \* the debate record in the latest consensus prompt
    checks,             \* the rounds at whose head a consensus check was issued
    returned,           \* what ask_both_models handed back to its caller
    history_file,       \* the sessions list of the history file, or its damage
    prompts,            \* every debater prompt issued so far, in order
    coordination,       \* the coordination / judge passes run so far
    history,            \* HistoryManager.history, the entries handed to the sink
    raised              \* the exception leaving the handler, "none" if none

vars == <<pc, mode, config, language, question, role1, role2, question_analysis,
          debate_round, result1, result2, round_num, consensus_reached,
          consensus_analysis, assessment, coord_response, consensus_prompt,
          checks, returned, history_file, prompts, coordination, history, raised>>

\* ask_both_models has not returned yet
NotReturned == [state |-> "pending", value |-> <<>>]

----------------------------------------------------------------------------
(* Bounds of the model.                                                    *)

\* longest coordinator response text, in tokens
MaxTextLen == 4
\* longest topic, in tokens
MaxTopicLen == 4
\* largest configured debate_rounds
MaxDebateRounds == 7

----------------------------------------------------------------------------
(* Exact fractions for the float scores.                                   *)

Frac(n, d) == <<n, d>>
FGeq(a, b) == a[1] * b[2] >= b[1] * a[2]
FLeq(a, b) == FGeq(b, a)
FEq(a, b) == a[1] * b[2] = b[1] * a[2]
FZero == Frac(0, 1)
FOne == Frac(1, 1)
FHalf == Frac(1, 2)
InUnit(s) == FGeq(s, FZero) /\ FLeq(s, FOne)

\* int(x * 100) for a score x >= 0 (scheduler.py:2965, 2991)
IntPercent(s) == (100 * s[1]) \div s[2]

Min2(a, b) == IF a <= b THEN a ELSE b
Max2(a, b) == IF a >= b THEN a ELSE b

\* the set of sequences over S of length at most n
SeqsUpTo(S, n) == UNION {[1..k -> S] : k \in 0..n}

\* s[:n]
Take(s, n) == SubSeq(s, 1, Min2(Len(s), n))
\* s[-n:]
LastN(s, n) == SubSeq(s, Max2(1, Len(s) - n + 1), Len(s))

\* phrase in text
Contains(text, tok) == \E i \in 1..Len(text) : text[i] = tok
ContainsAny(text, toks) == \E i \in 1..Len(text) : text[i] \in toks

----------------------------------------------------------------------------
(* Coordinator response texts.                                             *)

LBrace == "{"
RBrace == "}"

\* "NN%" figures, matched by (\d+(?:\.\d+)?)%
PctTokens == {"150%", "95%", "40%"}
PctValue(tok) == CASE tok = "150%" -> 150
                   [] tok = "95%" -> 95
                   [] tok = "40%" -> 40

\* the qualitative phrases of _extract_consensus_from_text, by branch
PhraseHigh == {"gaodu_gongshi", "gaodu_yizhi", "wanquan_tongyi"}
PhraseBasic == {"jiben_gongshi", "jiben_yizhi", "dati_tongyi"}
PhrasePartial == {"bufen_gongshi", "bufen_yizhi", "bufen_tongyi"}
PhraseDisagree == {"fenqi_jiaoda", "cunzai_fenqi", "bu_tongyi"}
PhraseTotal == {"wanquan_fenqi", "wanquan_butong"}

\* JSON members "key": value, one token each
FieldTokens == {"cp=150", "cp=95", "cp=50", "cp=-20", "cp=null", "cp=str",
                "as=txt", "as=null", "rec=end", "x=1"}
FieldKey(tok) == CASE tok \in {"cp=150", "cp=95", "cp=50", "cp=-20", "cp=null", "cp=str"}
                        -> "consensus_percentage"
                   [] tok \in {"as=txt", "as=null"} -> "analysis_summary"
                   [] tok = "rec=end" -> "recommendation"
                   [] tok = "x=1" -> "x"

\* a decoded JSON value: a number, a string or null
JNum(n) == [t |-> "num", v |-> n]
JStr == [t |-> "str", v |-> 0]
JNull == [t |-> "null", v |-> 0]
\* the mark of a key the object does not have
JMissing == [t |-> "missing", v |-> 0]
FieldVal(tok) == CASE tok = "cp=150" -> JNum(150)
                   [] tok = "cp=95" -> JNum(95)
                   [] tok = "cp=50" -> JNum(50)
                   [] tok = "cp=-20" -> JNum(0 - 20)
                   [] tok = "cp=null" -> JNull
                   [] tok = "cp=str" -> JStr
                   [] tok = "as=txt" -> JStr
                   [] tok = "as=null" -> JNull
                   [] tok = "rec=end" -> JStr
                   [] tok = "x=1" -> JNum(1)

\* str.find / str.rfind on the brace characters, 0 when absent (Python: -1)
Find(text, tok) ==
    IF Contains(text, tok)
    THEN CHOOSE i \in 1..Len(text) :
            text[i] = tok /\ \A j \in 1..(i - 1) : text[j] # tok
    ELSE 0
RFind(text, tok) ==
    IF Contains(text, tok)
    THEN CHOOSE i \in 1..Len(text) :
            text[i] = tok /\ \A j \in (i + 1)..Len(text) : text[j] # tok
    ELSE 0

\* re.search(r'(\d+(?:\.\d+)?)%', text): the first figure, as a number
HasPct(text) == ContainsAny(text, PctTokens)
FirstPct(text) ==
    PctValue(text[CHOOSE i \in 1..Len(text) :
                    text[i] \in PctTokens /\ \A j \in 1..(i - 1) : text[j] \notin PctTokens])

\* json.loads of a piece that starts with "{" and ends with "}": an object
\* when everything between the braces is a member, a JSONDecodeError otherwise
JsonDecodes(js) ==
    /\ Len(js) >= 2
    /\ js[1] = LBrace
    /\ js[Len(js)] = RBrace
    /\ \A i \in 2..(Len(js) - 1) : js[i] \in FieldTokens
JsonKeys(js) == {FieldKey(js[i]) : i \in 2..(Len(js) - 1)}
JsonKeyNames == {"consensus_percentage", "analysis_summary", "recommendation", "x"}
\* the decoded object, as a map over every key name; a repeated key keeps its
\* last value
JsonLoads(js) ==
    [k \in JsonKeyNames |->
        IF k \in JsonKeys(js)
        THEN FieldVal(js[CHOOSE i \in 2..(Len(js) - 1) :
                            FieldKey(js[i]) = k
                            /\ \A j \in (i + 1)..(Len(js) - 1) : FieldKey(js[j]) # k])
        ELSE JMissing]
\* {}
NoData == [k \in JsonKeyNames |-> JMissing]
\* key in data
HasKey(data, k) == data[k].t # "missing"
\* bool(data)
NonEmpty(data) == \E k \in JsonKeyNames : HasKey(data, k)

\* the rationale a detector result carries: the raw text, a JSON value, or a
\* fixed message
Rationale(kind, text, val) == [kind |-> kind, text |-> text, val |-> val]
RawText(text) == Rationale("raw_text", text, JStr)
FixedMsg(kind) == Rationale(kind, <<>>, JStr)
IsString(r) == r.val.t = "str"

\* what a detector call yields: a triple, or an exception leaving it
Triple(score, analysis, data) ==
    [raised |-> "none", score |-> score, analysis |-> analysis, data |-> data]
RaisedResult(exc) ==
    [raised |-> exc, score |-> FZero, analysis |-> FixedMsg("none"), data |-> NoData]

\* the percentage taken as it comes, without the limits
Clamp100_open(p) == p

\* max(0, min(100, p))
Clamp100(p) == Max2(0, Min2(100, p))

extract_consensus_from_text(text) ==
    IF ContainsAny(text, PhraseHigh) THEN Triple(Frac(9, 10), RawText(text), NoData)
    ELSE IF ContainsAny(text, PhraseBasic) THEN Triple(Frac(3, 4), RawText(text), NoData)
    ELSE IF ContainsAny(text, PhrasePartial) THEN Triple(Frac(3, 5), RawText(text), NoData)
    ELSE IF ContainsAny(text, PhraseDisagree) THEN Triple(Frac(3, 10), RawText(text), NoData)
    ELSE IF ContainsAny(text, PhraseTotal) THEN Triple(Frac(1, 10), RawText(text), NoData)
    ELSE IF HasPct(text) THEN Triple(Frac(FirstPct(text), 100), RawText(text), NoData)
    ELSE Triple(FHalf, RawText(text), NoData)

parse_consensus_analysis(text) ==
    LET json_start == Find(text, LBrace)
        json_end == RFind(text, RBrace) + 1
    IN  IF json_start # 0 /\ json_end > json_start
        THEN LET json_str == SubSeq(text, json_start, json_end - 1)
             IN  IF ~JsonDecodes(json_str)
                 THEN extract_consensus_from_text(text)
                 ELSE LET analysis_data == JsonLoads(json_str)
                          consensus_percentage ==
                              IF HasKey(analysis_data, "consensus_percentage")
                              THEN analysis_data["consensus_percentage"]
                              ELSE JNum(0)
                          analysis_summary ==
                              IF HasKey(analysis_data, "analysis_summary")
                              THEN Rationale("json_summary", <<>>,
                                             analysis_data["analysis_summary"])
                              ELSE FixedMsg("fenxi_wancheng")
                      IN  IF consensus_percentage.t # "num"
                          THEN RaisedResult("TypeError")
                          ELSE Triple(Frac(Clamp100(consensus_percentage.v), 100),
                                      analysis_summary, analysis_data)
        ELSE IF HasPct(text)
             THEN Triple(Frac(Clamp100(FirstPct(text)), 100), RawText(text), NoData)
             ELSE Triple(FHalf, RawText(text), NoData)


----------------------------------------------------------------------------
(* Debater texts and the keyword-overlap score.                            *)

\* str.lower() on a token
Lower(tok) == CASE tok = "Cats" -> "cats"
                [] tok = "What" -> "what"
                [] OTHER -> tok
LowerText(text) == [i \in 1..Len(text) |-> Lower(text[i])]

\* set(re.findall(r'\b\w{3,}\b', text.lower()))
Words3(text) == {LowerText(text)[i] : i \in {j \in 1..Len(text) : Len(text[j]) >= 3}}

\* the overlap measured against the first word set instead of the union
calculate_consensus_byfirst(text1, text2) ==
    IF text1 = <<>> \/ text2 = <<>> THEN FZero
    ELSE LET words1 == Words3(text1)
             words2 == Words3(text2)
         IN  IF words1 = {} \/ words2 = {} THEN FZero
             ELSE Frac(Cardinality(words1 \cap words2), Cardinality(words1))

calculate_consensus(text1, text2) ==
    IF text1 = <<>> \/ text2 = <<>> THEN FZero
    ELSE LET words1 == Words3(text1)
             words2 == Words3(text2)
         IN  IF words1 = {} \/ words2 = {} THEN FZero
             ELSE Frac(Cardinality(words1 \cap words2), Cardinality(words1 \cup words2))

\* what a client returns: generate_response never raises, every error inside
\* it (HTTP status, timeout, connection error, any exception) comes back as
\* success = False with an error text
ProviderOutcomes == {"ok", "http_error", "exception"}
ErrorText == <<"qingqiu_shibai">>
ClientResult(outcome, text) ==
    IF outcome = "ok" THEN [success |-> TRUE, response |-> text]
    ELSE [success |-> FALSE, response |-> ErrorText]

\* content of the i-th entry from the end, '' when the history is too short
ContentFromEnd(debate_history, i) ==
    IF Len(debate_history) >= i
    THEN debate_history[Len(debate_history) - i + 1].content
    ELSE <<>>

\* how much of a turn's content the consensus prompt quotes (784)
SummaryChars == 300

\* the debate record cut to the window the debaters are shown
debate_summary_window(debate_history) ==
    LET recent == LastN(debate_history, 4)
    IN  [i \in 1..Len(recent) |->
            [round |-> recent[i].round, speaker |-> recent[i].speaker,
             type |-> recent[i].type,
             content |-> Take(recent[i].content, SummaryChars)]]

\* debate_summary of the consensus prompt: every turn of the history handed
\* in, each content cut to its first 300 characters (780-787)
debate_summary(debate_history) ==
    [i \in 1..Len(debate_history) |->
        [round |-> debate_history[i].round, speaker |-> debate_history[i].speaker,
         type |-> debate_history[i].type,
         content |-> Take(debate_history[i].content, SummaryChars)]]

analyze_debate_consensus(response, debate_history) ==
    IF response.success
    THEN parse_consensus_analysis(response.response)
    ELSE Triple(calculate_consensus(ContentFromEnd(debate_history, 1),
                                    ContentFromEnd(debate_history, 2)),
                FixedMsg("traditional"), NoData)

----------------------------------------------------------------------------
(* Question classifier.  A topic is a sequence of tokens, a keyword is a   *)
(* sequence of tokens, and "kw in question" is contiguous occurrence.      *)
(* The keyword lists are a part of the source's lists, chosen so that      *)
(* one keyword can occur inside another of the other list (cunzai inside   *)
(* cunzai ma) or of the same list (yinggai inside shifou yinggai).         *)

FACTUAL_KEYWORDS == {<<"shi", "shenme">>, <<"cunzai", "ma">>, <<"dongwu">>,
                     <<"yumao">>, <<"lishi">>, <<"yanse">>}
PHILOSOPHICAL_KEYWORDS == {<<"yiyi">>, <<"cunzai">>, <<"yinggai">>,
                           <<"shifou", "yinggai">>}

Occurs(kw, text) ==
    \E i \in 1..(Len(text) - Len(kw) + 1) : SubSeq(text, i, i + Len(kw) - 1) = kw

Hits(keywords, text) == {kw \in keywords : Occurs(kw, LowerText(text))}

FMin(a, b) == IF FLeq(a, b) THEN a ELSE b

\* the classifier with the first comparison off by one
analyze_question_type_offbyone(q) ==
    LET factual_score == Cardinality(Hits(FACTUAL_KEYWORDS, q))
        philosophical_score == Cardinality(Hits(PHILOSOPHICAL_KEYWORDS, q))
    IN  IF factual_score >= philosophical_score * 2
        THEN [type |-> "factual", accuracy_required |-> TRUE,
              confidence |-> FMin(FOne, Frac(factual_score, 3))]
        ELSE IF philosophical_score > factual_score * 2
        THEN [type |-> "philosophical", accuracy_required |-> FALSE,
              confidence |-> FMin(FOne, Frac(philosophical_score, 3))]
        ELSE [type |-> "mixed",
              accuracy_required |-> (factual_score >= philosophical_score),
              confidence |-> FHalf]

analyze_question_type(q) ==
    LET factual_score == Cardinality(Hits(FACTUAL_KEYWORDS, q))
        philosophical_score == Cardinality(Hits(PHILOSOPHICAL_KEYWORDS, q))
    IN  IF factual_score > philosophical_score * 2
        THEN [type |-> "factual", accuracy_required |-> TRUE,
              confidence |-> FMin(FOne, Frac(factual_score, 3))]
        ELSE IF philosophical_score > factual_score * 2
        THEN [type |-> "philosophical", accuracy_required |-> FALSE,
              confidence |-> FMin(FOne, Frac(philosophical_score, 3))]
        ELSE [type |-> "mixed",
              accuracy_required |-> (factual_score >= philosophical_score),
              confidence |-> FHalf]

NoAnalysis == [type |-> "none", accuracy_required |-> FALSE, confidence |-> FZero]

\* the instruction block chosen from the classification and the language
ModeInstruction(accuracy_required, lang) ==
    IF lang = "en"
    THEN (IF accuracy_required THEN "ANTI_HALLUCINATION_PROMPT_EN"
                               ELSE "PHILOSOPHICAL_PROMPT_EN")
    ELSE (IF accuracy_required THEN "ANTI_HALLUCINATION_PROMPT_ZH"
                               ELSE "PHILOSOPHICAL_PROMPT_ZH")

AntiHallucinationBlocks == {"ANTI_HALLUCINATION_PROMPT_EN", "ANTI_HALLUCINATION_PROMPT_ZH"}
OpenDiscussionBlocks == {"PHILOSOPHICAL_PROMPT_EN", "PHILOSOPHICAL_PROMPT_ZH"}

----------------------------------------------------------------------------
(* Role catalog (a part of ROLE_PROMPTS and of COMMON_TYPOS).              *)

ROLE_LIST == <<"xitong_jiagoushi", "xushi_daoyan", "bianlunshou">>
RoleNames == {ROLE_LIST[i] : i \in 1..Len(ROLE_LIST)}

COMMON_TYPOS(role_name) == CASE role_name = "xushu_daoyan" -> "xushi_daoyan"
                             [] role_name = "bianshou" -> "bianlunshou"
                             [] OTHER -> role_name

\* the lookup without the catalog test: every name yields a persona text
get_role_prompt_lenient(role_name, is_first) ==
    LET corrected_role == COMMON_TYPOS(role_name)
    IN  IF corrected_role = "bianlunshou"
        THEN <<corrected_role, IF is_first THEN "position_pro" ELSE "position_con">>
        ELSE <<corrected_role>>

\* the lookup that appends the pro stance whatever the position is
get_role_prompt_nostance(role_name, is_first) ==
    LET corrected_role == COMMON_TYPOS(role_name)
    IN  IF corrected_role \notin RoleNames THEN <<>>
        ELSE IF corrected_role = "bianlunshou"
        THEN <<corrected_role, "position_pro">>
        ELSE <<corrected_role>>

\* the persona text as a sequence of blocks; <<>> is None
get_role_prompt(role_name, is_first) ==
    LET corrected_role == COMMON_TYPOS(role_name)
    IN  IF corrected_role \notin RoleNames THEN <<>>
        ELSE IF corrected_role = "bianlunshou"
        THEN <<corrected_role, IF is_first THEN "position_pro" ELSE "position_con">>
        ELSE <<corrected_role>>


----------------------------------------------------------------------------
(* Turns, prompts and the texts the providers are let to return.           *)

Turn(round, speaker, content, type, side) ==
    [round |-> round, speaker |-> speaker, content |-> content, type |-> type,
     side |-> side]

\* f"{actual_model}-{role}"
DisplayName(model, role) == [model |-> model, role |-> role]
display_name1 == DisplayName(config.model_1, role1)
display_name2 == DisplayName(config.model_2, role2)

\* the last turns shown to a debater, and the length each content is cut to
ContextTurns == 4
ContextChars == 500

build_debate_context(transcript) ==
    LET recent == LastN(transcript, ContextTurns)
    IN  [i \in 1..Len(recent) |->
            [round |-> recent[i].round, speaker |-> recent[i].speaker,
             content |-> Take(recent[i].content, ContextChars)]]

\* a debater prompt: the blocks it is made of, in order, and the transcript
\* window embedded in it
Prompt(round, to, parts, context) ==
    [round |-> round, to |-> to, parts |-> parts, context |-> context]
PromptContains(p, block) == \E i \in 1..Len(p.parts) : p.parts[i] = block

LangInstruction == IF language = "en" THEN <<"lang_instruction">> ELSE <<>>
mode_instruction == ModeInstruction(question_analysis.accuracy_required, language)

OpeningPrompt(to, role_prompt, instruction) ==
    Prompt(1, to,
           role_prompt \o LangInstruction \o <<instruction>>
               \o <<"topic", "your_position", "opponent_role", "task_opening">>,
           <<>>)

\* the rebuttal prompt of the second side built on the context of the first
\* side's step, the context not being rebuilt after the first side's turn
RebuttalPrompt_stale(round, to, role_prompt, transcript) ==
    Prompt(round, to,
           role_prompt \o LangInstruction
               \o <<"topic", "your_position", "opponent_role", "debate_history",
                    "task_rebuttal">>,
           build_debate_context(IF to = 2 THEN Take(transcript, Len(transcript) - 1)
                                ELSE transcript))

RebuttalPrompt(round, to, role_prompt, transcript) ==
    Prompt(round, to,
           role_prompt \o LangInstruction
               \o <<"topic", "your_position", "opponent_role", "debate_history",
                    "task_rebuttal">>,
           build_debate_context(transcript))

\* what the debaters answer
TextA == <<"Cats", "have", "fur">>
TextB == <<"cats", "have", "no", "feathers">>
\* an answer longer than the limits of the debate prompts, one token a character
LongText == [i \in 1..(ContextChars + 1) |-> "zi"]
\* a model configured for side 1 that answers at length
VerboseModel == "verbose:7b"
Contents1 == IF config.model_1 = VerboseModel THEN {LongText} ELSE {TextA}
Contents2 == {TextA, TextB}
Placeholder1 == <<"moxing1wuxiangying">>
Placeholder2 == <<"moxing2wuxiangying">>

\* what the coordinator answers to a consensus prompt during a session
CoordTexts == {<<>>, <<"40%">>, <<LBrace, "150%", RBrace>>,
               <<LBrace, "cp=95", RBrace>>, <<LBrace, "cp=50", RBrace>>,
               <<LBrace, "cp=str", RBrace>>,
               <<LBrace, "cp=95", "as=null", RBrace>>}
\* what the coordinator or judge answers to a summary prompt
ReportTexts == {<<>>, <<" ">>, <<"report">>}
\* summary.strip()
Strip(text) == SelectSeq(text, LAMBDA tok : tok # " ")

NoResult == [success |-> FALSE, response |-> <<>>]
NoAssessment == Triple(FZero, FixedMsg("none"), NoData)


----------------------------------------------------------------------------
(* AICouncilScheduler._debate_ask                                          *)

\* role = role or self.config.default_role
RoleOrDefault(role, default) == IF role = "" THEN default ELSE role

role_prompt1 == get_role_prompt(role1, TRUE)
role_prompt2 == get_role_prompt(role2, FALSE)

\* the modes ask_both_models dispatches on (2707-2712)
AskModes == {"parallel", "debate", "turtle_soup"}

\* a handler that lets the TypeError of a consensus check through
Caught_expected(exc) == exc \in {"ValueError", "InvalidRoleError"}

\* except Exception (2715): every exception of the flows is of that class
Caught(exc) == exc \in {"ValueError", "InvalidRoleError", "TypeError"}

\* ask_both_models hands the value of its handler on (2708-2712)
Returned(value) == [state |-> "returned", value |-> value]

\* an exception leaves the dispatched handler: it is logged and the empty
\* list is returned (2715-2717)
ask_both_models_except(exc) ==
    IF Caught(exc) THEN Returned(<<>>) ELSE [state |-> "propagated", value |-> <<>>]

\* roles, clients, display names, role prompts, classification (2787-2886)
DebateStart ==
    /\ pc = "start"
    /\ mode = "debate"
    /\ LET r1 == RoleOrDefault(role1, config.default_role_1)
           r2 == RoleOrDefault(role2, config.default_role_2)
       IN  /\ role1' = r1
           /\ role2' = r2
           /\ IF get_role_prompt(r1, TRUE) = <<>> \/ get_role_prompt(r2, FALSE) = <<>>
              THEN /\ raised' = "InvalidRoleError"
                   /\ pc' = "raised"
                   /\ UNCHANGED question_analysis
              ELSE /\ question_analysis' = analyze_question_type(question)
                   /\ pc' = "opening1"
                   /\ UNCHANGED raised
    /\ returned' = IF raised' # "none" THEN ask_both_models_except(raised')
                   ELSE returned
    /\ UNCHANGED <<mode, config, language, question, debate_round, result1, result2,
                   round_num, consensus_reached, consensus_analysis, assessment,
                   coord_response, prompts, coordination, history,
                   consensus_prompt, checks, history_file>>

\* the first debater's opening call (2888-2908)
Opening1 ==
    /\ pc = "opening1"
    /\ \E outcome \in ProviderOutcomes, text \in Contents1 :
          result1' = ClientResult(outcome, text)
    /\ prompts' = Append(prompts, OpeningPrompt(1, role_prompt1, mode_instruction))
    /\ pc' = "opening2"
    /\ UNCHANGED <<mode, config, language, question, role1, role2, question_analysis,
                   debate_round, result2, round_num, consensus_reached,
                   consensus_analysis, assessment, coord_response, coordination,
                   history, raised,
                   consensus_prompt, checks, returned, history_file>>

\* a failed result is replaced by the placeholder (2932-2936)
SafeResult(result, placeholder) ==
    IF result.success THEN result ELSE [success |-> FALSE, response |-> placeholder]

\* the second debater's opening call, then the two opening turns (2910-2955)
Opening2 ==
    /\ pc = "opening2"
    /\ \E outcome \in ProviderOutcomes, text \in Contents2 :
          LET r1 == SafeResult(result1, Placeholder1)
              r2 == SafeResult(ClientResult(outcome, text), Placeholder2)
          IN  /\ result1' = r1
              /\ result2' = r2
              /\ debate_round' =
                    <<Turn(1, display_name1, r1.response, "opening", "none"),
                      Turn(1, display_name2, r2.response, "opening", "none")>>
    /\ prompts' = Append(prompts, OpeningPrompt(2, role_prompt2, mode_instruction))
    /\ round_num' = 2
    /\ consensus_reached' = FALSE
    /\ consensus_analysis' = FixedMsg("empty")
    /\ pc' = "loop"
    /\ UNCHANGED <<mode, config, language, question, role1, role2, question_analysis,
                   assessment, coord_response, coordination, history, raised,
                   consensus_prompt, checks, returned, history_file>>

\* the hard ceiling of the round budget (2953)
RoundCeiling == 6
\* the round budget taken as configured
max_rounds_unclamped == config.debate_rounds

max_rounds == Min2(config.debate_rounds, RoundCeiling)

\* the condition of a check made from round 2 on, whatever the start round
CheckEnabled_anyround ==
    /\ config.enable_early_stop
    /\ config.ai_consensus_analysis

\* the condition of a check that a failed side would switch off
CheckEnabled_gated ==
    /\ config.enable_early_stop
    /\ config.ai_consensus_analysis
    /\ round_num >= config.consensus_check_start_round
    /\ result1.success /\ result2.success

\* the condition of the consensus check of a round (2959)
CheckEnabled ==
    /\ config.enable_early_stop
    /\ config.ai_consensus_analysis
    /\ round_num >= config.consensus_check_start_round

\* InteractiveInterface._handle_consensus_feedback (5169-5192)
handle_consensus_feedback(consensus_score, current_consensus_reached) ==
    IF FGeq(consensus_score, config.consensus_threshold) THEN TRUE
    ELSE current_consensus_reached

\* the rationale of the first check, kept through the later ones
retained_analysis_first(analysis) ==
    IF consensus_analysis = FixedMsg("empty") THEN analysis ELSE consensus_analysis

\* consensus_analysis = analysis (2988): the rationale of this check replaces
\* the one kept so far
retained_analysis(analysis) == analysis

\* the display of the analysis slices analysis_data['analysis_summary'], which
\* raises TypeError when that value is no string (2971-2975)
DisplayRaises(res) ==
    /\ NonEmpty(res.data)
    /\ HasKey(res.data, "analysis_summary")
    /\ res.data["analysis_summary"].t # "str"

\* range(2, max_rounds + 1) is exhausted
LoopExit ==
    /\ pc = "loop"
    /\ round_num > max_rounds
    /\ pc' = "coordination"
    /\ UNCHANGED <<mode, config, language, question, role1, role2, question_analysis,
                   debate_round, result1, result2, round_num, consensus_reached,
                   consensus_analysis, assessment, coord_response, prompts,
                   coordination, history, raised,
                   consensus_prompt, checks, returned, history_file>>

\* the consensus check at the head of a round (2959-2994)
ConsensusCheck ==
    /\ pc = "loop"
    /\ round_num <= max_rounds
    /\ CheckEnabled
    /\ \E outcome \in ProviderOutcomes, text \in CoordTexts :
          LET response == ClientResult(outcome, text)
              res == analyze_debate_consensus(response, debate_round)
          IN  /\ coord_response' = response
              /\ consensus_prompt' = debate_summary(debate_round)
              /\ checks' = Append(checks, round_num)
              /\ IF res.raised # "none"
                 THEN /\ raised' = res.raised
                      /\ pc' = "raised"
                      /\ UNCHANGED <<assessment, consensus_analysis, consensus_reached>>
                 ELSE /\ assessment' = res
                      /\ IF DisplayRaises(res)
                         THEN /\ raised' = "TypeError"
                              /\ pc' = "raised"
                              /\ UNCHANGED <<consensus_analysis, consensus_reached>>
                         ELSE /\ consensus_analysis' = retained_analysis(res.analysis)
                              /\ consensus_reached' =
                                    handle_consensus_feedback(res.score, consensus_reached)
                              /\ pc' = IF consensus_reached' THEN "coordination"
                                       ELSE "rebut1"
                              /\ UNCHANGED raised
              /\ returned' = IF raised' # "none" THEN ask_both_models_except(raised')
                             ELSE returned
    /\ UNCHANGED <<mode, config, language, question, role1, role2, question_analysis,
                   debate_round, result1, result2, round_num, prompts, coordination,
                   history, history_file>>

\* a round whose check is switched off or not yet due
NoCheck ==
    /\ pc = "loop"
    /\ round_num <= max_rounds
    /\ ~CheckEnabled
    /\ pc' = "rebut1"
    /\ UNCHANGED <<mode, config, language, question, role1, role2, question_analysis,
                   debate_round, result1, result2, round_num, consensus_reached,
                   consensus_analysis, assessment, coord_response, prompts,
                   coordination, history, raised,
                   consensus_prompt, checks, returned, history_file>>

\* the gate left open whatever the results are
BothSucceeded_open == TRUE

\* the gate that lets a step through when either side succeeded
BothSucceeded_either == result1.success \/ result2.success

\* the gate of both rebuttal steps (3007, 3079)
BothSucceeded == result1.success /\ result2.success

\* the first debater's rebuttal (3003-3076)
Rebuttal1 ==
    /\ pc = "rebut1"
    /\ IF BothSucceeded
       THEN \E outcome \in ProviderOutcomes, text \in Contents1 :
               LET r == ClientResult(outcome, text)
               IN  /\ result1' = r
                   /\ prompts' = Append(prompts,
                         RebuttalPrompt(round_num, 1, role_prompt1, debate_round))
                   /\ debate_round' =
                         IF r.success
                         THEN Append(debate_round,
                                 Turn(round_num, display_name1, r.response,
                                      "rebuttal", "none"))
                         ELSE debate_round
       ELSE UNCHANGED <<result1, prompts, debate_round>>
    /\ pc' = "rebut2"
    /\ UNCHANGED <<mode, config, language, question, role1, role2, question_analysis,
                   result2, round_num, consensus_reached, consensus_analysis,
                   assessment, coord_response, coordination, history, raised,
                   consensus_prompt, checks, returned, history_file>>

\* the second debater's rebuttal, then the next round (3078-3151)
Rebuttal2 ==
    /\ pc = "rebut2"
    /\ IF BothSucceeded
       THEN \E outcome \in ProviderOutcomes, text \in Contents2 :
               LET r == ClientResult(outcome, text)
               IN  /\ result2' = r
                   /\ prompts' = Append(prompts,
                         RebuttalPrompt(round_num, 2, role_prompt2, debate_round))
                   /\ debate_round' =
                         IF r.success
                         THEN Append(debate_round,
                                 Turn(round_num, display_name2, r.response,
                                      "rebuttal", "none"))
                         ELSE debate_round
       ELSE UNCHANGED <<result2, prompts, debate_round>>
    /\ round_num' = round_num + 1
    /\ pc' = "loop"
    /\ UNCHANGED <<mode, config, language, question, role1, role2, question_analysis,
                   result1, consensus_reached, consensus_analysis, assessment,
                   coord_response, coordination, history, raised,
                   consensus_prompt, checks, returned, history_file>>

\* a coordination or judge pass: what it leaves as the analysis artifact and
\* the consensus rationale it worked from (none for the passes handed none)
Pass(kind, artifact, rationale) ==
    [kind |-> kind, artifact |-> artifact, rationale |-> rationale]

\* _generate_consensus_summary (3174-3303): consensus_analysis is quoted in the
\* summary prompt (3204, 3237) and in the summary built on failure (3303)
generate_consensus_summary(response) ==
    IF response.success /\ Strip(response.response) # <<>>
    THEN Pass("consensus_summary", "report", consensus_analysis)
    ELSE Pass("consensus_summary", "synthetic_summary", consensus_analysis)

\* _coordinate_responses (3305-3405)
coordinate_responses(response) ==
    IF response.success /\ Strip(response.response) # <<>>
    THEN Pass("neutral_analysis", "report", FixedMsg("none"))
    ELSE Pass("neutral_analysis", "failure_message", FixedMsg("none"))

\* the coordination stage (3153-3166)
Coordination ==
    /\ pc = "coordination"
    /\ \E outcome \in ProviderOutcomes, text \in ReportTexts :
          LET response == ClientResult(outcome, text)
          IN  /\ coord_response' = response
              /\ coordination' =
                    Append(coordination,
                           IF consensus_reached
                           THEN generate_consensus_summary(response)
                           ELSE coordinate_responses(response))
    /\ pc' = "save"
    /\ UNCHANGED <<mode, config, language, question, role1, role2, question_analysis,
                   debate_round, result1, result2, round_num, consensus_reached,
                   consensus_analysis, assessment, prompts, history, raised,
                   consensus_prompt, checks, returned, history_file>>

\* self.session_id, set when the scheduler is built (2582)
session_id == "session_id"

\* the record holding the recent window of the transcript only
save_debate_entry_window ==
    [session_id |-> session_id, type |-> "debate", question |-> question,
     roles |-> <<display_name1, display_name2>>,
     debate_rounds |-> LastN(debate_round, ContextTurns)]

\* _save_debate_entry (3595-3605), called with the display names as roles
save_debate_entry ==
    [session_id |-> session_id, type |-> "debate", question |-> question,
     roles |-> <<display_name1, display_name2>>, debate_rounds |-> debate_round]

\* _ask_save_debate_log (3607-3662): 1 hands the record to the history
\* manager, 2 writes a separate file, 3 saves nothing; the handler returns
\* the transcript, which ask_both_models hands on (3172, 2710)
AskSaveDebateLog ==
    /\ pc = "save"
    /\ \E choice \in {"1", "2", "3"} :
          history' = IF choice = "1" THEN Append(history, save_debate_entry)
                     ELSE history
    /\ returned' = IF mode = "debate" THEN Returned(debate_round) ELSE returned
    /\ pc' = "done"
    /\ UNCHANGED <<mode, config, language, question, role1, role2, question_analysis,
                   debate_round, result1, result2, round_num, consensus_reached,
                   consensus_analysis, assessment, coord_response, prompts,
                   coordination, raised,
                   consensus_prompt, checks, history_file>>


----------------------------------------------------------------------------
(* AICouncilScheduler.competition_debate                                   *)

\* how much of the opponent's last answer a competition prompt quotes
OpeningQuoteChars == 500
RebuttalQuoteChars == 600

Quote(turn, n) ==
    <<[round |-> turn.round, speaker |-> turn.speaker,
       content |-> Take(turn.content, n)]>>

\* roles, clients, display names, role prompts, classification (3777-3813)
CompetitionStart ==
    /\ pc = "start"
    /\ mode = "competition"
    /\ LET r1 == RoleOrDefault(role1, config.default_role_1)
           r2 == RoleOrDefault(role2, config.default_role_2)
       IN  /\ role1' = r1
           /\ role2' = r2
           /\ IF get_role_prompt(r1, TRUE) = <<>> \/ get_role_prompt(r2, FALSE) = <<>>
              THEN /\ raised' = "InvalidRoleError"
                   /\ pc' = "raised"
                   /\ UNCHANGED question_analysis
              ELSE /\ question_analysis' = analyze_question_type(question)
                   /\ pc' = "c_opening1"
                   /\ UNCHANGED raised
    /\ debate_round' = <<>>
    /\ UNCHANGED <<mode, config, language, question, result1, result2, round_num,
                   consensus_reached, consensus_analysis, assessment, coord_response,
                   prompts, coordination, history,
                   consensus_prompt, checks, returned, history_file>>

\* the opening statement of the pro side (3815-3846)
CompetitionOpening1 ==
    /\ pc = "c_opening1"
    /\ \E outcome \in ProviderOutcomes, text \in Contents1 :
          LET r == ClientResult(outcome, text)
          IN  /\ result1' = r
              /\ debate_round' =
                    Append(debate_round, Turn(1, display_name1, r.response, "opening", "pro"))
    /\ prompts' = Append(prompts,
          Prompt(1, 1,
                 role_prompt1 \o <<"lang_instruction", mode_instruction,
                                   "proposition", "side_pro", "task_opening">>,
                 <<>>))
    /\ pc' = "c_opening2"
    /\ UNCHANGED <<mode, config, language, question, role1, role2, question_analysis,
                   result2, round_num, consensus_reached, consensus_analysis,
                   assessment, coord_response, coordination, history, raised,
                   consensus_prompt, checks, returned, history_file>>

\* the opening statement of the con side (3848-3875)
CompetitionOpening2 ==
    /\ pc = "c_opening2"
    /\ \E outcome \in ProviderOutcomes, text \in Contents2 :
          LET r == ClientResult(outcome, text)
          IN  /\ result2' = r
              /\ debate_round' =
                    Append(debate_round, Turn(1, display_name2, r.response, "opening", "con"))
    /\ prompts' = Append(prompts,
          Prompt(1, 2,
                 role_prompt2 \o <<"lang_instruction", mode_instruction,
                                   "proposition", "side_con", "pro_argument",
                                   "task_opening">>,
                 Quote(debate_round[Len(debate_round)], OpeningQuoteChars)))
    /\ round_num' = 2
    /\ pc' = "c_loop"
    /\ UNCHANGED <<mode, config, language, question, role1, role2, question_analysis,
                   result1, consensus_reached, consensus_analysis, assessment,
                   coord_response, coordination, history, raised,
                   consensus_prompt, checks, returned, history_file>>

\* the loop left as soon as a side's latest call has failed
CompetitionLoopExit_onfailure ==
    /\ pc = "c_loop"
    /\ (round_num > config.rounds \/ ~(result1.success /\ result2.success))
    /\ pc' = "judge"
    /\ UNCHANGED <<mode, config, language, question, role1, role2, question_analysis,
                   debate_round, result1, result2, round_num, consensus_reached,
                   consensus_analysis, assessment, coord_response, prompts,
                   coordination, history, raised,
                   consensus_prompt, checks, returned, history_file>>

\* range(2, rounds + 1) is exhausted (3878)
CompetitionLoopExit ==
    /\ pc = "c_loop"
    /\ round_num > config.rounds
    /\ pc' = "judge"
    /\ UNCHANGED <<mode, config, language, question, role1, role2, question_analysis,
                   debate_round, result1, result2, round_num, consensus_reached,
                   consensus_analysis, assessment, coord_response, prompts,
                   coordination, history, raised,
                   consensus_prompt, checks, returned, history_file>>

\* the rebuttal of the pro side (3886-3925)
CompetitionRebuttal1 ==
    /\ pc = "c_loop"
    /\ round_num <= config.rounds
    /\ \E outcome \in ProviderOutcomes, text \in Contents1 :
          LET r == ClientResult(outcome, text)
          IN  /\ result1' = r
              /\ debate_round' =
                    Append(debate_round,
                           Turn(round_num, display_name1, r.response, "rebuttal", "pro"))
    /\ prompts' = Append(prompts,
          Prompt(round_num, 1,
                 role_prompt1 \o LangInstruction
                     \o <<"proposition", "side_pro", "con_argument", "task_rebuttal">>,
                 Quote(debate_round[Len(debate_round)], RebuttalQuoteChars)))
    /\ pc' = "c_rebut2"
    /\ UNCHANGED <<mode, config, language, question, role1, role2, question_analysis,
                   result2, round_num, consensus_reached, consensus_analysis,
                   assessment, coord_response, coordination, history, raised,
                   consensus_prompt, checks, returned, history_file>>

\* the rebuttal of the con side, then the next round (3927-3964)
CompetitionRebuttal2 ==
    /\ pc = "c_rebut2"
    /\ \E outcome \in ProviderOutcomes, text \in Contents2 :
          LET r == ClientResult(outcome, text)
          IN  /\ result2' = r
              /\ debate_round' =
                    Append(debate_round,
                           Turn(round_num, display_name2, r.response, "rebuttal", "con"))
    /\ prompts' = Append(prompts,
          Prompt(round_num, 2,
                 role_prompt2 \o LangInstruction
                     \o <<"proposition", "side_con", "pro_argument", "task_rebuttal">>,
                 Quote(debate_round[Len(debate_round)], RebuttalQuoteChars)))
    /\ round_num' = round_num + 1
    /\ pc' = "c_loop"
    /\ UNCHANGED <<mode, config, language, question, role1, role2, question_analysis,
                   result1, consensus_reached, consensus_analysis, assessment,
                   coord_response, coordination, history, raised,
                   consensus_prompt, checks, returned, history_file>>

\* _judge_competition (3981-4114): the verdict is streamed to the user, a
\* failed call only prints a failure line
judge_competition(response) ==
    IF response.success
    THEN Pass("judgment", "verdict", FixedMsg("none"))
    ELSE Pass("judgment", "failure_message", FixedMsg("none"))

\* the judge stage (3966-3974)
Judge ==
    /\ pc = "judge"
    /\ \E outcome \in ProviderOutcomes, text \in ReportTexts :
          LET response == ClientResult(outcome, text)
          IN  /\ coord_response' = response
              /\ coordination' = Append(coordination, judge_competition(response))
    /\ pc' = "save"
    /\ UNCHANGED <<mode, config, language, question, role1, role2, question_analysis,
                   debate_round, result1, result2, round_num, consensus_reached,
                   consensus_analysis, assessment, prompts, history, raised,
                   consensus_prompt, checks, returned, history_file>>

----------------------------------------------------------------------------
(* Sessions.                                                               *)

\* Config.__init__ (1332-1463)
DefaultConfig ==
    [debate_rounds |-> 3, rounds |-> 3, consensus_threshold |-> Frac(9, 10),
     consensus_check_start_round |-> 2, enable_early_stop |-> TRUE,
     ai_consensus_analysis |-> TRUE, default_role_1 |-> "xitong_jiagoushi",
     default_role_2 |-> "xushi_daoyan", model_1 |-> "qwen2.5:3b",
     model_2 |-> "llama3.2:3b"]

\* the topics of the sessions
CatFeathersEN == <<"what", "color", "are", "a", "cat's", "feathers">>
CatFeathersZH == <<"mao", "de", "yumao", "shi", "shenme", "yanse">>
MeaningOfLife == <<"rensheng", "de", "yiyi", "shi", "shenme">>
ShouldWe == <<"shifou", "yinggai", "yang", "mao">>
SessionTopics == {CatFeathersEN, CatFeathersZH, MeaningOfLife, ShouldWe}

\* largest rounds argument of a competition
MaxCompetitionRounds == 2

Thresholds == {Frac(1, 2), Frac(9, 10), Frac(6, 5)}
StartRounds == {2, 3}
\* enable_early_stop, ai_consensus_analysis
CheckFlags == {<<TRUE, TRUE>>, <<FALSE, TRUE>>, <<TRUE, FALSE>>}
RoleArgs == {"", "bianshou", "wizard"}

\* debate sessions on one topic: every consensus setting for the round
\* budgets up to the ceiling, the default threshold and start round for the
\* budgets beyond it
ConfiguredDebates ==
    LET session(n, th, st, fl) ==
            [mode |-> "debate", language |-> "zh", question |-> CatFeathersZH,
             role1 |-> "", role2 |-> "",
             config |-> [DefaultConfig EXCEPT !.debate_rounds = n,
                                              !.consensus_threshold = th,
                                              !.consensus_check_start_round = st,
                                              !.enable_early_stop = fl[1],
                                              !.ai_consensus_analysis = fl[2]]]
    IN  {session(n, th, st, fl) :
            n \in 0..RoundCeiling, th \in Thresholds, st \in StartRounds,
            fl \in CheckFlags}
        \cup
        {session(n, DefaultConfig.consensus_threshold,
                 DefaultConfig.consensus_check_start_round, fl) :
            n \in (RoundCeiling + 1)..MaxDebateRounds, fl \in CheckFlags}

\* sessions of both kinds over the topics, languages and role arguments, with
\* the default settings
DefaultSessions ==
    {[mode |-> m, language |-> lang, question |-> q, role1 |-> r1, role2 |-> r2,
      config |-> [DefaultConfig EXCEPT !.debate_rounds = 2, !.rounds = n]] :
        m \in {"debate", "competition"}, lang \in {"zh", "en"}, q \in SessionTopics,
        r1 \in RoleArgs, r2 \in RoleArgs, n \in {MaxCompetitionRounds}}

\* competitions over the rounds argument
CountedCompetitions ==
    {[mode |-> "competition", language |-> "zh", question |-> CatFeathersZH,
      role1 |-> "", role2 |-> "",
      config |-> [DefaultConfig EXCEPT !.rounds = n]] : n \in 0..MaxCompetitionRounds}

\* sessions whose two debaters are served by one model and play one role:
\* model_2 configured as model_1, or both sides on the API model (2683-2688)
SameSpeakerSessions ==
    {[mode |-> m, language |-> "zh", question |-> CatFeathersZH,
      role1 |-> "bianlunshou", role2 |-> "bianlunshou",
      config |-> [DefaultConfig EXCEPT !.model_2 = DefaultConfig.model_1,
                                       !.debate_rounds = 2,
                                       !.rounds = MaxCompetitionRounds]] :
        m \in {"debate", "competition"}}

\* sessions whose side 1 answers beyond the quoting limits
VerboseSessions ==
    {[mode |-> m, language |-> "zh", question |-> CatFeathersZH,
      role1 |-> "", role2 |-> "",
      config |-> [DefaultConfig EXCEPT !.model_1 = VerboseModel,
                                       !.rounds = MaxCompetitionRounds]] :
        m \in {"debate", "competition"}}

\* calls of ask_both_models with a mode that does not exist
UnknownModeSessions ==
    {[mode |-> "roundtable", language |-> "zh", question |-> CatFeathersZH,
      role1 |-> r1, role2 |-> "", config |-> DefaultConfig] : r1 \in RoleArgs}

Sessions ==
    ConfiguredDebates \cup DefaultSessions \cup CountedCompetitions
        \cup SameSpeakerSessions \cup VerboseSessions \cup UnknownModeSessions

\* the state a handler starts from
Init ==
    /\ \E s \in Sessions :
          /\ mode = s.mode
          /\ config = s.config
          /\ language = s.language
          /\ question = s.question
          /\ role1 = s.role1
          /\ role2 = s.role2
    /\ pc = "start"
    /\ question_analysis = NoAnalysis
    /\ debate_round = <<>>
    /\ result1 = NoResult
    /\ result2 = NoResult
    /\ round_num = 0
    /\ consensus_reached = FALSE
    /\ consensus_analysis = FixedMsg("empty")
    /\ assessment = NoAssessment
    /\ coord_response = NoResult
    /\ prompts = <<>>
    /\ coordination = <<>>
    /\ history = <<>>
    /\ consensus_prompt = <<>>
    /\ checks = <<>>
    /\ returned = NotReturned
    /\ history_file = <<>>
    /\ raised = "none"

\* ask_both_models called with a mode it does not know (2713-2714)
UnknownMode ==
    /\ pc = "start"
    /\ mode \notin AskModes \cup {"competition"}
    /\ raised' = "ValueError"
    /\ pc' = "raised"
    /\ returned' = ask_both_models_except(raised')
    /\ UNCHANGED <<mode, config, language, question, role1, role2, question_analysis,
                   debate_round, result1, result2, round_num, consensus_reached,
                   consensus_analysis, assessment, coord_response, prompts,
                   coordination, history, consensus_prompt, checks, history_file>>

Next ==
    \/ DebateStart
    \/ Opening1
    \/ Opening2
    \/ LoopExit
    \/ ConsensusCheck
    \/ NoCheck
    \/ Rebuttal1
    \/ Rebuttal2
    \/ Coordination
    \/ CompetitionStart
    \/ CompetitionOpening1
    \/ CompetitionOpening2
    \/ CompetitionLoopExit
    \/ CompetitionRebuttal1
    \/ CompetitionRebuttal2
    \/ Judge
    \/ AskSaveDebateLog
    \/ UnknownMode

Spec == Init /\ [][Next]_vars


----------------------------------------------------------------------------
(* The consensus detector on its own: one call of                          *)
(* ConsensusDetector.analyze_debate_consensus on every coordinator result  *)
(* and transcript of the bounded sets.                                     *)

DetectorAlphabet == {LBrace, RBrace, "150%", "40%", "gaodu_gongshi", "cunzai_fenqi",
                     "cp=150", "cp=50", "cp=-20", "cp=null", "cp=str", "as=null",
                     "x=1"}
DetectorTexts == SeqsUpTo(DetectorAlphabet, MaxTextLen)

DetectorContents == {<<>>, <<"no">>, TextA, TextB, Placeholder1}
DetectorSpeaker == DisplayName("qwen2.5:3b", "xitong_jiagoushi")
DetectorHistories ==
    {[i \in 1..Len(cs) |-> Turn(1, DetectorSpeaker, cs[i], "opening", "none")] :
        cs \in SeqsUpTo(DetectorContents, 2)}

InitDetector ==
    /\ mode = "detector"
    /\ pc = "detect"
    /\ \/ /\ coord_response \in {ClientResult("ok", t) : t \in DetectorTexts}
          /\ debate_round = <<>>
       \/ /\ coord_response \in {ClientResult(o, <<>>) : o \in ProviderOutcomes \ {"ok"}}
          /\ debate_round \in DetectorHistories
    /\ config = DefaultConfig
    /\ language = "zh"
    /\ question = CatFeathersZH
    /\ role1 = "xitong_jiagoushi"
    /\ role2 = "xushi_daoyan"
    /\ question_analysis = NoAnalysis
    /\ result1 = NoResult
    /\ result2 = NoResult
    /\ round_num = 0
    /\ consensus_reached = FALSE
    /\ consensus_analysis = FixedMsg("empty")
    /\ assessment = NoAssessment
    /\ prompts = <<>>
    /\ coordination = <<>>
    /\ history = <<>>
    /\ consensus_prompt = <<>>
    /\ checks = <<>>
    /\ returned = NotReturned
    /\ history_file = <<>>
    /\ raised = "none"

\* ConsensusDetector.analyze_debate_consensus (756-847)
Detect ==
    /\ pc = "detect"
    /\ LET res == analyze_debate_consensus(coord_response, debate_round)
       IN  IF res.raised # "none"
           THEN /\ raised' = res.raised
                /\ pc' = "raised"
                /\ UNCHANGED assessment
           ELSE /\ assessment' = res
                /\ pc' = "detected"
                /\ UNCHANGED raised
    /\ consensus_prompt' = debate_summary(debate_round)
    /\ UNCHANGED <<mode, config, language, question, role1, role2, question_analysis,
                   debate_round, result1, result2, round_num, consensus_reached,
                   consensus_analysis, coord_response, prompts, coordination,
                   history, checks, returned, history_file>>

NextDetector == Detect

SpecDetector == InitDetector /\ [][NextDetector]_vars

----------------------------------------------------------------------------
(* The question classifier on its own: analyze_question_type on every      *)
(* topic of the bounded set.                                               *)

TopicAlphabet == {"shi", "shenme", "cunzai", "ma", "dongwu", "yumao", "lishi", "yanse",
                  "yiyi", "yinggai", "shifou", "Cats"}
Topics == SeqsUpTo(TopicAlphabet, MaxTopicLen) \cup SessionTopics

InitClassifier ==
    /\ mode = "classifier"
    /\ pc = "classify"
    /\ question \in Topics
    /\ config = DefaultConfig
    /\ language = "zh"
    /\ role1 = "xitong_jiagoushi"
    /\ role2 = "xushi_daoyan"
    /\ question_analysis = NoAnalysis
    /\ debate_round = <<>>
    /\ result1 = NoResult
    /\ result2 = NoResult
    /\ round_num = 0
    /\ consensus_reached = FALSE
    /\ consensus_analysis = FixedMsg("empty")
    /\ assessment = NoAssessment
    /\ coord_response = NoResult
    /\ prompts = <<>>
    /\ coordination = <<>>
    /\ history = <<>>
    /\ consensus_prompt = <<>>
    /\ checks = <<>>
    /\ returned = NotReturned
    /\ history_file = <<>>
    /\ raised = "none"

\* analyze_question_type (1809-1851)
Classify ==
    /\ pc = "classify"
    /\ question_analysis' = analyze_question_type(question)
    /\ pc' = "classified"
    /\ UNCHANGED <<mode, config, language, question, role1, role2, debate_round,
                   result1, result2, round_num, consensus_reached, consensus_analysis,
                   assessment, coord_response, prompts, coordination, history,
                   raised,
                   consensus_prompt, checks, returned, history_file>>

NextClassifier == Classify

SpecClassifier == InitClassifier /\ [][NextClassifier]_vars


----------------------------------------------------------------------------
(* Role selection on its own: InteractiveInterface._select_debate_roles on *)
(* every pair of typed inputs, and RoleSystem.get_role_prompt on every     *)
(* input for both positions.                                               *)

\* what the user types for a role: nothing, a number, a name, an alias, or
\* something else
DigitInputs == {"0", "1", "2", "3", "4", "02"}
RoleInputs == {""} \cup DigitInputs \cup RoleNames
                  \cup {"xushu_daoyan", "bianshou", "wizard"}

\* int(role_input) of a digit string
DigitValue(role_input) == CASE role_input = "0" -> 0
                            [] role_input = "1" -> 1
                            [] role_input = "2" -> 2
                            [] role_input = "3" -> 3
                            [] role_input = "4" -> 4
                            [] role_input = "02" -> 2

\* str(i + 1), the key of role_num_map for the role at index i (1255)
RoleKey(i) == CASE i = 1 -> "1"
                [] i = 2 -> "2"
                [] i = 3 -> "3"
                [] i = 4 -> "4"

\* the members of a list of roles
Members(available_roles) == {available_roles[i] : i \in 1..Len(available_roles)}

\* the validator without its closing default: an input it does not know is
\* handed on as typed
validate_role_input_unchecked(role_input, available_roles) ==
    IF role_input = "" THEN available_roles[1]
    ELSE IF /\ role_input \in DigitInputs
            /\ \E i \in 1..Len(available_roles) : RoleKey(i) = role_input
    THEN available_roles[CHOOSE i \in 1..Len(available_roles) : RoleKey(i) = role_input]
    ELSE role_input

\* InputValidator.validate_role_input (1248-1265)
validate_role_input(role_input, available_roles) ==
    IF role_input = "" THEN available_roles[1]
    ELSE IF /\ role_input \in DigitInputs
            /\ \E i \in 1..Len(available_roles) : RoleKey(i) = role_input
    THEN available_roles[CHOOSE i \in 1..Len(available_roles) : RoleKey(i) = role_input]
    ELSE IF role_input \in Members(available_roles)
    THEN role_input
    ELSE available_roles[1]

InitRoles ==
    /\ mode = "roles"
    /\ pc = "select"
    /\ role1 \in RoleInputs
    /\ role2 \in RoleInputs
    /\ config = DefaultConfig
    /\ language = "zh"
    /\ question = CatFeathersZH
    /\ question_analysis = NoAnalysis
    /\ debate_round = <<>>
    /\ result1 = NoResult
    /\ result2 = NoResult
    /\ round_num = 0
    /\ consensus_reached = FALSE
    /\ consensus_analysis = FixedMsg("empty")
    /\ assessment = NoAssessment
    /\ coord_response = NoResult
    /\ prompts = <<>>
    /\ coordination = <<>>
    /\ history = <<>>
    /\ consensus_prompt = <<>>
    /\ checks = <<>>
    /\ returned = NotReturned
    /\ history_file = <<>>
    /\ raised = "none"

\* InteractiveInterface._select_debate_roles (5158-5166): both inputs go
\* through the validator with the whole catalog as the list of roles
SelectDebateRoles ==
    /\ pc = "select"
    /\ role1' = validate_role_input(role1, ROLE_LIST)
    /\ role2' = validate_role_input(role2, ROLE_LIST)
    /\ pc' = "selected"
    /\ UNCHANGED <<mode, config, language, question, question_analysis, debate_round,
                   result1, result2, round_num, consensus_reached, consensus_analysis,
                   assessment, coord_response, prompts, coordination, history,
                   raised,
                   consensus_prompt, checks, returned, history_file>>

\* RoleSystem.get_role_prompt (1948-1976) on the first input, as the first
\* and as the second speaker
RolePrompts ==
    /\ pc = "select"
    /\ prompts' = <<get_role_prompt(role1, TRUE), get_role_prompt(role1, FALSE)>>
    /\ pc' = "prompted"
    /\ UNCHANGED <<mode, config, language, question, role1, role2, question_analysis,
                   debate_round, result1, result2, round_num, consensus_reached,
                   consensus_analysis, assessment, coord_response, coordination,
                   history, raised,
                   consensus_prompt, checks, returned, history_file>>

\* InteractiveInterface._enter_turtle_soup_mode (4387-4388): the two roles
\* of the game are taken as typed, with a default for an empty input
EnterTurtleSoupMode ==
    /\ pc = "select"
    /\ role1' = (IF role1 = "" THEN "zhentan" ELSE role1)
    /\ role2' = (IF role2 = "" THEN "tuilizhe" ELSE role2)
    /\ pc' = "soup_selected"
    /\ UNCHANGED <<mode, config, language, question, question_analysis, debate_round,
                   result1, result2, round_num, consensus_reached, consensus_analysis,
                   assessment, coord_response, prompts, coordination, history,
                   raised, consensus_prompt, checks, returned, history_file>>

NextRoles ==
    \/ SelectDebateRoles
    \/ RolePrompts
    \/ EnterTurtleSoupMode

SpecRoles == InitRoles /\ [][NextRoles]_vars

----------------------------------------------------------------------------
(* The heuristic fallback on its own:                                      *)
(* ConsensusDetector._fallback_consensus_analysis on every transcript of   *)
(* the bounded set.  Here a token is one Chinese character, a signal word  *)
(* is a sequence of characters, and "word in text" is contiguous           *)
(* occurrence, so that ren tong occurs inside bu ren tong.                 *)

\* longest content of a turn, in characters
MaxContentLen == 3

\* the two word lists, in the order of the source; dan shi is listed twice
consensus_words ==
    <<<<"tong", "yi">>, <<"ren", "ke">>, <<"mei", "cuo">>, <<"que", "shi2">>,
      <<"you", "dao", "li">>, <<"li", "jie">>, <<"xiang", "tong">>,
      <<"yi1", "zhi">>, <<"ren", "tong">>>>
disagreement_words ==
    <<<<"dan", "shi">>, <<"ran", "er">>, <<"bu", "tong">>, <<"fan", "dui">>,
      <<"bu", "ren", "tong">>, <<"fen", "qi">>, <<"zheng", "yi4">>,
      <<"dan", "shi">>, <<"ke", "shi">>>>

\* all_content: every content followed by a blank
RECURSIVE AllContent(_)
AllContent(debate_history) ==
    IF debate_history = <<>> THEN <<>>
    ELSE AllContent(SubSeq(debate_history, 1, Len(debate_history) - 1))
             \o debate_history[Len(debate_history)].content \o <<" ">>

\* sum(1 for word in words if word in text)
SignalCount(words, text) ==
    Cardinality({i \in 1..Len(words) : Occurs(words[i], text)})

FMax(a, b) == IF FGeq(a, b) THEN a ELSE b

\* what the fallback returns besides the score
FallbackData == [NoData EXCEPT !["recommendation"] = JStr]

\* the fallback without the limits on the ratio
fallback_consensus_analysis_unclamped(debate_history) ==
    LET all_content_lower == LowerText(AllContent(debate_history))
        consensus_count == SignalCount(consensus_words, all_content_lower)
        disagreement_count == SignalCount(disagreement_words, all_content_lower)
        total_signals == consensus_count + disagreement_count
        consensus_score == IF total_signals = 0 THEN FHalf
                           ELSE Frac(consensus_count, total_signals)
    IN  Triple(consensus_score,
               FixedMsg(IF ~FLeq(consensus_score, Frac(3, 5)) THEN "fallback_agree"
                        ELSE IF ~FLeq(consensus_score, Frac(2, 5)) THEN "fallback_mixed"
                        ELSE "fallback_disagree"),
               FallbackData)

fallback_consensus_analysis(debate_history) ==
    LET all_content_lower == LowerText(AllContent(debate_history))
        consensus_count == SignalCount(consensus_words, all_content_lower)
        disagreement_count == SignalCount(disagreement_words, all_content_lower)
        total_signals == consensus_count + disagreement_count
        consensus_score ==
            IF total_signals = 0 THEN FHalf
            ELSE FMax(Frac(1, 5), FMin(Frac(4, 5), Frac(consensus_count, total_signals)))
    IN  Triple(consensus_score,
               FixedMsg(IF ~FLeq(consensus_score, Frac(3, 5)) THEN "fallback_agree"
                        ELSE IF ~FLeq(consensus_score, Frac(2, 5)) THEN "fallback_mixed"
                        ELSE "fallback_disagree"),
               FallbackData)

FallbackAlphabet == {"bu", "ren", "tong", "yi", "dan", "shi", "ke"}
FallbackContents == SeqsUpTo(FallbackAlphabet, MaxContentLen)
FallbackReplies == {<<>>, <<"tong", "yi">>, <<"dan", "shi">>,
                    <<"fan", "dui", "fen", "qi">>}
FallbackHistories ==
    {<<>>}
        \cup {<<Turn(1, DetectorSpeaker, c1, "opening", "none")>> :
                 c1 \in FallbackContents}
        \cup {<<Turn(1, DetectorSpeaker, c1, "opening", "none"),
                Turn(1, DetectorSpeaker, c2, "opening", "none")>> :
                 c1 \in FallbackContents, c2 \in FallbackReplies}

InitFallback ==
    /\ mode = "fallback"
    /\ pc = "fallback"
    /\ debate_round \in FallbackHistories
    /\ config = DefaultConfig
    /\ language = "zh"
    /\ question = CatFeathersZH
    /\ role1 = "xitong_jiagoushi"
    /\ role2 = "xushi_daoyan"
    /\ question_analysis = NoAnalysis
    /\ result1 = NoResult
    /\ result2 = NoResult
    /\ round_num = 0
    /\ consensus_reached = FALSE
    /\ consensus_analysis = FixedMsg("empty")
    /\ assessment = NoAssessment
    /\ coord_response = NoResult
    /\ prompts = <<>>
    /\ coordination = <<>>
    /\ history = <<>>
    /\ consensus_prompt = <<>>
    /\ checks = <<>>
    /\ returned = NotReturned
    /\ history_file = <<>>
    /\ raised = "none"

\* ConsensusDetector._fallback_consensus_analysis (1002-1059)
Fallback ==
    /\ pc = "fallback"
    /\ assessment' = fallback_consensus_analysis(debate_round)
    /\ pc' = "fell_back"
    /\ UNCHANGED <<mode, config, language, question, role1, role2, question_analysis,
                   debate_round, result1, result2, round_num, consensus_reached,
                   consensus_analysis, coord_response, prompts, coordination,
                   history, raised,
                   consensus_prompt, checks, returned, history_file>>

NextFallback == Fallback

SpecFallback == InitFallback /\ [][NextFallback]_vars

----------------------------------------------------------------------------
(* The parallel mode on its own: AICouncilScheduler._parallel_ask.  The    *)
(* main thread submits one request per model to a pool of two workers and  *)
(* joins the futures with as_completed; a worker finishes at any moment    *)
(* after its request was submitted.  result1 and result2 hold the two      *)
(* futures, debate_round holds the list results the handler returns.       *)
(* The shipped clients turn every exception into a failure result; the     *)
(* outcome "raise" is a future whose call raises all the same, the case    *)
(* the except branch of the join is written for.                           *)

ParallelConfigs ==
    {[model_1 |-> DefaultConfig.model_1, model_2 |-> m2, save_history |-> h] :
        m2 \in {DefaultConfig.model_2, DefaultConfig.model_1}, h \in BOOLEAN}

InitParallel ==
    /\ mode = "parallel"
    /\ pc = "submit1"
    /\ config \in ParallelConfigs
    /\ result1 = [state |-> "none", outcome |-> "none"]
    /\ result2 = [state |-> "none", outcome |-> "none"]
    /\ debate_round = <<>>
    /\ language = "zh"
    /\ question = CatFeathersZH
    /\ role1 = ""
    /\ role2 = ""
    /\ question_analysis = NoAnalysis
    /\ round_num = 0
    /\ consensus_reached = FALSE
    /\ consensus_analysis = FixedMsg("empty")
    /\ assessment = NoAssessment
    /\ coord_response = NoResult
    /\ prompts = <<>>
    /\ coordination = <<>>
    /\ history = <<>>
    /\ consensus_prompt = <<>>
    /\ checks = <<>>
    /\ returned = NotReturned
    /\ history_file = <<>>
    /\ raised = "none"

\* executor.submit for model 1 (2726-2734)
Submit1 ==
    /\ pc = "submit1"
    /\ result1' = [state |-> "running", outcome |-> "none"]
    /\ pc' = "submit2"
    /\ UNCHANGED <<mode, config, language, question, role1, role2, question_analysis,
                   debate_round, result2, round_num, consensus_reached,
                   consensus_analysis, assessment, coord_response, prompts,
                   coordination, history, raised,
                   consensus_prompt, checks, returned, history_file>>

\* executor.submit for model 2 (2737-2745)
Submit2 ==
    /\ pc = "submit2"
    /\ result2' = [state |-> "running", outcome |-> "none"]
    /\ pc' = "join"
    /\ UNCHANGED <<mode, config, language, question, role1, role2, question_analysis,
                   debate_round, result1, round_num, consensus_reached,
                   consensus_analysis, assessment, coord_response, prompts,
                   coordination, history, raised,
                   consensus_prompt, checks, returned, history_file>>

\* a worker thread finishes its call: with a successful result, with a
\* failure result, or by raising
FutureDone ==
    /\ \E outcome \in {"ok", "failure", "raise"} :
          \/ /\ result1.state = "running"
             /\ result1' = [state |-> "done", outcome |-> outcome]
             /\ UNCHANGED result2
          \/ /\ result2.state = "running"
             /\ result2' = [state |-> "done", outcome |-> outcome]
             /\ UNCHANGED result1
    /\ UNCHANGED <<pc, mode, config, language, question, role1, role2,
                   question_analysis, debate_round, round_num, consensus_reached,
                   consensus_analysis, assessment, coord_response, prompts,
                   coordination, history, raised,
                   consensus_prompt, checks, returned, history_file>>

\* the entry with the model label taken from the first request, whichever
\* future is joined
FutureEntry_firstlabel(outcome, model_name, text) ==
    CASE outcome = "ok" ->
            [success |-> TRUE, model |-> config.model_1, response |-> text,
             kind |-> "result"]
      [] outcome = "failure" ->
            [success |-> FALSE, model |-> config.model_1, response |-> ErrorText,
             kind |-> "result"]
      [] outcome = "raise" ->
            [success |-> FALSE, model |-> config.model_1, response |-> <<>>,
             kind |-> "execution_error"]

\* what the join appends for a finished future: the client's result, or the
\* entry of the except branch, which has no response (2750-2760)
FutureEntry(outcome, model_name, text) ==
    CASE outcome = "ok" ->
            [success |-> TRUE, model |-> model_name, response |-> text,
             kind |-> "result"]
      [] outcome = "failure" ->
            [success |-> FALSE, model |-> model_name, response |-> ErrorText,
             kind |-> "result"]
      [] outcome = "raise" ->
            [success |-> FALSE, model |-> model_name, response |-> <<>>,
             kind |-> "execution_error"]

\* one turn of the loop over as_completed: a finished future that was not
\* yielded yet (2748-2760)
AsCompleted ==
    /\ pc = "join"
    /\ \/ /\ result1.state = "done"
          /\ debate_round' =
                Append(debate_round, FutureEntry(result1.outcome, config.model_1, TextA))
          /\ result1' = [result1 EXCEPT !.state = "joined"]
          /\ UNCHANGED result2
       \/ /\ result2.state = "done"
          /\ debate_round' =
                Append(debate_round, FutureEntry(result2.outcome, config.model_2, TextB))
          /\ result2' = [result2 EXCEPT !.state = "joined"]
          /\ UNCHANGED result1
    /\ UNCHANGED <<pc, mode, config, language, question, role1, role2,
                   question_analysis, round_num, consensus_reached,
                   consensus_analysis, assessment, coord_response, prompts,
                   coordination, history, raised,
                   consensus_prompt, checks, returned, history_file>>

\* both futures were yielded: display, _save_history_entry, return (2762-2767)
ParallelReturn ==
    /\ pc = "join"
    /\ result1.state = "joined"
    /\ result2.state = "joined"
    /\ history' = IF config.save_history
                  THEN Append(history, [session_id |-> session_id, type |-> "parallel",
                                        question |-> question,
                                        results |-> debate_round])
                  ELSE history
    /\ pc' = "returned"
    /\ UNCHANGED <<mode, config, language, question, role1, role2, question_analysis,
                   debate_round, result1, result2, round_num, consensus_reached,
                   consensus_analysis, assessment, coord_response, prompts,
                   coordination, raised,
                   consensus_prompt, checks, returned, history_file>>

NextParallel ==
    \/ Submit1
    \/ Submit2
    \/ FutureDone
    \/ AsCompleted
    \/ ParallelReturn

SpecParallel == InitParallel /\ [][NextParallel]_vars

----------------------------------------------------------------------------
(* The turtle-soup game: AICouncilScheduler._turtle_soup_ask. In this      *)
(* part round_num is round_count, history is the local list of questions   *)
(* and answers, result1 the result of the question call, result2 the guess *)
(* of the round with the player's verdict on it.                           *)

\* largest turtle_soup_max_rounds of the games played
MaxSoupRounds == 6

\* a guess is attempted in the rounds divisible by it (3471)
GuessEvery == 3
\* how many history lines a question prompt and a guess prompt quote (3442,
\* 3498)
SoupContextLines == 4
GuessContextLines == 6

SoupConfigs ==
    {[model_1 |-> DefaultConfig.model_1, model_2 |-> DefaultConfig.model_2,
      turtle_soup_max_rounds |-> n] : n \in 0..MaxSoupRounds}

\* role1 or "侦探", role2 or "推理者" (3418-3419)
SoupRole(role, default) == IF role = "" THEN default ELSE role

\* the sides taken the other way round
current_side_swapped == IF round_num % 2 = 1 THEN 2 ELSE 1

\* round_count % 2 == 1 picks role1 and model 1 (3432-3433)
current_side == IF round_num % 2 = 1 THEN 1 ELSE 2

current_role ==
    IF current_side = 1 THEN SoupRole(role1, "zhentan") ELSE SoupRole(role2, "tuilizhe")
current_model == IF current_side = 1 THEN config.model_1 ELSE config.model_2

QuestionText == <<"ta", "shi", "ren", "ma">>
SoupAnswers == {"shi", "fou", "buzhidao", "jieshu"}
GuessTexts == {<<>>, <<"ta", "shi", "yisheng">>}
NoGuess == [success |-> FALSE, response |-> <<>>, confirmed |-> FALSE]

InitSoup ==
    /\ mode = "turtle_soup"
    /\ pc = "s_loop"
    /\ config \in SoupConfigs
    /\ language = "zh"
    /\ question = <<"haiguitang">>
    /\ role1 \in {"", "jizhe"}
    /\ role2 = ""
    /\ question_analysis = NoAnalysis
    /\ debate_round = <<>>
    /\ result1 = NoResult
    /\ result2 = NoGuess
    /\ round_num = 0
    /\ consensus_reached = FALSE
    /\ consensus_analysis = FixedMsg("empty")
    /\ assessment = NoAssessment
    /\ coord_response = NoResult
    /\ prompts = <<>>
    /\ coordination = <<>>
    /\ history = <<>>
    /\ consensus_prompt = <<>>
    /\ checks = <<>>
    /\ returned = NotReturned
    /\ history_file = <<>>
    /\ raised = "none"

\* while round_count < max_rounds: round_count += 1 (3425-3426)
SoupLoop ==
    /\ pc = "s_loop"
    /\ IF round_num < config.turtle_soup_max_rounds
       THEN /\ round_num' = round_num + 1
            /\ pc' = "s_ask"
       ELSE /\ pc' = "s_final"
            /\ UNCHANGED round_num
    /\ UNCHANGED <<mode, config, language, question, role1, role2, question_analysis,
                   debate_round, result1, result2, consensus_reached,
                   consensus_analysis, assessment, coord_response, prompts,
                   coordination, history, raised, consensus_prompt, checks,
                   returned, history_file>>

\* the question call of the round; a failed call leaves the loop (3432-3457,
\* 3476-3478)
SoupAsk ==
    /\ pc = "s_ask"
    /\ prompts' = Append(prompts,
            [round |-> round_num, role |-> current_role, model |-> current_model,
             kind |-> "question", context |-> LastN(history, SoupContextLines)])
    /\ \E outcome \in ProviderOutcomes :
          /\ result1' = ClientResult(outcome, QuestionText)
          /\ pc' = IF result1'.success THEN "s_answer" ELSE "s_final"
    /\ UNCHANGED <<mode, config, language, question, role1, role2, question_analysis,
                   debate_round, result2, round_num, consensus_reached,
                   consensus_analysis, assessment, coord_response, coordination,
                   history, raised, consensus_prompt, checks, returned,
                   history_file>>

\* the player's answer: "结束" leaves the loop, any other answer is recorded
\* with its question (3462-3468)
SoupAnswer ==
    /\ pc = "s_answer"
    /\ \E answer \in SoupAnswers :
          IF answer = "jieshu"
          THEN /\ pc' = "s_final"
               /\ UNCHANGED history
          ELSE /\ history' = history \o <<[kind |-> "wen", text |-> result1.response],
                                         [kind |-> "da", text |-> <<answer>>]>>
               /\ pc' = IF round_num % GuessEvery = 0 THEN "s_guess" ELSE "s_loop"
    /\ UNCHANGED <<mode, config, language, question, role1, role2, question_analysis,
                   debate_round, result1, result2, round_num, consensus_reached,
                   consensus_analysis, assessment, coord_response, prompts,
                   coordination, raised, consensus_prompt, checks, returned,
                   history_file>>

\* the guess of the round and the player's verdict, asked for only when the
\* guess is not empty (3471-3475, 3493-3519)
SoupGuess ==
    /\ pc = "s_guess"
    /\ prompts' = Append(prompts,
            [round |-> round_num, role |-> current_role, model |-> current_model,
             kind |-> "guess", context |-> LastN(history, GuessContextLines)])
    /\ \E outcome \in ProviderOutcomes, text \in GuessTexts, verdict \in BOOLEAN :
          LET r == ClientResult(outcome, text)
              guessed == r.success /\ r.response # <<>>
          IN  /\ result2' = [success |-> r.success, response |-> r.response,
                             confirmed |-> guessed /\ verdict]
              /\ pc' = IF guessed /\ verdict THEN "s_final" ELSE "s_loop"
    /\ UNCHANGED <<mode, config, language, question, role1, role2, question_analysis,
                   debate_round, result1, round_num, consensus_reached,
                   consensus_analysis, assessment, coord_response, coordination,
                   history, raised, consensus_prompt, checks, returned,
                   history_file>>

\* _finalize_turtle_soup (3481, 3521-3540), then return [] (3482): the coordinator
\* is asked for the summary only when the history is not empty
SoupFinalize ==
    /\ pc = "s_final"
    /\ IF history # <<>>
       THEN \E outcome \in ProviderOutcomes, text \in ReportTexts :
               /\ coord_response' = ClientResult(outcome, text)
               /\ coordination' =
                     Append(coordination,
                            Pass("soup_summary",
                                 IF coord_response'.success THEN "report" ELSE "none",
                                 FixedMsg("none")))
       ELSE /\ coordination' =
                  Append(coordination, Pass("soup_summary", "not_asked", FixedMsg("none")))
            /\ UNCHANGED coord_response
    /\ returned' = Returned(<<>>)
    /\ pc' = "done"
    /\ UNCHANGED <<mode, config, language, question, role1, role2, question_analysis,
                   debate_round, result1, result2, round_num, consensus_reached,
                   consensus_analysis, assessment, prompts, history, raised,
                   consensus_prompt, checks, history_file>>

NextSoup ==
    \/ SoupLoop
    \/ SoupAsk
    \/ SoupAnswer
    \/ SoupGuess
    \/ SoupFinalize

\* every provider call returns and the player answers every prompt
SpecTurtleSoup == InitSoup /\ [][NextSoup]_vars /\ WF_vars(NextSoup)

----------------------------------------------------------------------------
(* The history manager on its own: HistoryManager.add_entry and            *)
(* save_history over the states of the history file. In this part          *)
(* round_num counts the calls of add_entry and pc names the last call.     *)

\* largest number of entries handed to the manager
MaxEntries == 4

\* the history file: absent, a JSON object with or without the "sessions"
\* list, text that does not decode, or JSON of another shape (a list, null,
\* an object whose "sessions" is no list)
HistoryFile(kind, sessions) == [kind |-> kind, sessions |-> sessions]
\* an entry as _save_debate_entry builds it (3597-3604), told apart by n
HistoryEntry(n) == [session_id |-> "session", n |-> n]
OldEntry == HistoryEntry(0)
InitialFiles ==
    {HistoryFile("absent", <<>>), HistoryFile("object", <<>>),
     HistoryFile("object", <<OldEntry>>), HistoryFile("no_sessions", <<>>),
     HistoryFile("undecodable", <<>>), HistoryFile("misshapen", <<>>)}

\* how a call of save_history meets the file system
IoOutcomes == {"ok", "makedirs_error", "read_error", "open_error", "write_error"}

InitHistory ==
    /\ mode = "history"
    /\ pc = "idle"
    /\ config = DefaultConfig
    /\ language = "zh"
    /\ question = CatFeathersZH
    /\ role1 = ""
    /\ role2 = ""
    /\ question_analysis = NoAnalysis
    /\ debate_round = <<>>
    /\ result1 = NoResult
    /\ result2 = NoResult
    /\ round_num = 0
    /\ consensus_reached = FALSE
    /\ consensus_analysis = FixedMsg("empty")
    /\ assessment = NoAssessment
    /\ coord_response = NoResult
    /\ prompts = <<>>
    /\ coordination = <<>>
    /\ history = <<>>
    /\ consensus_prompt = <<>>
    /\ checks = <<>>
    /\ returned = NotReturned
    /\ history_file \in InitialFiles
    /\ raised = "none"

\* add_entry (1141-1144)
AddEntry ==
    /\ round_num < MaxEntries
    /\ round_num' = round_num + 1
    /\ history' = Append(history, HistoryEntry(round_num'))
    /\ pc' = "added"
    /\ raised' = "none"
    /\ UNCHANGED <<mode, config, language, question, role1, role2, question_analysis,
                   debate_round, result1, result2, consensus_reached,
                   consensus_analysis, assessment, coord_response, prompts,
                   coordination, consensus_prompt, checks, returned, history_file>>

\* the buffer kept as it is after the file was written
history_clear_skipped(pending) == pending

\* self.history.clear() (1166)
history_clear(pending) == <<>>

\* data as read from the file (1151-1158): the sessions already there
data_sessions == IF history_file.kind = "object" THEN history_file.sessions ELSE <<>>

\* save_history (1146-1168)
SaveHistory ==
    /\ \E io \in IoOutcomes :
          CASE io = "makedirs_error" ->
                  /\ pc' = "save_failed"
                  /\ raised' = "none"
                  /\ UNCHANGED <<history, history_file>>
            [] io = "read_error" ->
                  /\ history_file.kind # "absent"
                  /\ pc' = "save_failed"
                  /\ raised' = "none"
                  /\ UNCHANGED <<history, history_file>>
            [] io \in {"ok", "open_error", "write_error"}
                    /\ history_file.kind = "undecodable" ->
                  /\ pc' = "save_failed"
                  /\ raised' = "none"
                  /\ UNCHANGED <<history, history_file>>
            [] io \in {"ok", "open_error", "write_error"}
                    /\ history_file.kind = "misshapen" ->
                  /\ pc' = "save_raised"
                  /\ raised' = "TypeError"
                  /\ UNCHANGED <<history, history_file>>
            [] io = "open_error"
                    /\ history_file.kind \notin {"undecodable", "misshapen"} ->
                  /\ pc' = "save_failed"
                  /\ raised' = "none"
                  /\ UNCHANGED <<history, history_file>>
            [] io = "write_error"
                    /\ history_file.kind \notin {"undecodable", "misshapen"} ->
                  /\ history_file' = HistoryFile("undecodable", <<>>)
                  /\ pc' = "save_failed"
                  /\ raised' = "none"
                  /\ UNCHANGED history
            [] io = "ok"
                    /\ history_file.kind \notin {"undecodable", "misshapen"} ->
                  /\ history_file' = HistoryFile("object", data_sessions \o history)
                  /\ history' = history_clear(history)
                  /\ pc' = "saved"
                  /\ raised' = "none"
    /\ UNCHANGED <<mode, config, language, question, role1, role2, question_analysis,
                   debate_round, result1, result2, round_num, consensus_reached,
                   consensus_analysis, assessment, coord_response, prompts,
                   coordination, consensus_prompt, checks, returned>>

NextHistory ==
    \/ AddEntry
    \/ SaveHistory

SpecHistory == InitHistory /\ [][NextHistory]_vars

----------------------------------------------------------------------------
(* The claims.                                                             *)

\* C1: the score analyze_debate_consensus returns lies in [0,1] for every
\* coordinator outcome and response text; 150 percent yields 1.0, never 1.5.
C1_ScoreInUnitInterval ==
    (mode = "detector" /\ pc = "detected") => InUnit(assessment.score)

\* C2: analyze_debate_consensus never raises and returns a triple whose
\* rationale is a string, for every provider outcome and response text.
C2_DetectorNeverRaises ==
    mode = "detector" =>
        /\ raised = "none"
        /\ pc = "detected" => IsString(assessment.analysis)

\* C3: a debate with a round budget of 6 and a threshold above 1.0 never
\* reaches consensus and ends with the neutral-analysis pass.
C3_UnreachableThreshold ==
    (/\ mode = "debate"
     /\ config.debate_rounds = 6
     /\ ~FLeq(config.consensus_threshold, FOne)) =>
        /\ ~consensus_reached
        /\ pc = "done" =>
              /\ Len(coordination) = 1
              /\ coordination[1].kind = "neutral_analysis"

\* the assessment is the one made by the consensus check of the round
\* round_num, and the handler is past that check
PastCheckOfRound ==
    /\ mode = "debate"
    /\ pc \in {"rebut1", "rebut2", "raised", "coordination", "save", "done"}
    /\ round_num >= 2
    /\ round_num <= max_rounds
    /\ CheckEnabled
    /\ assessment # NoAssessment

\* C4: when the detector's score of a round r >= consensus_check_start_round
\* is at least the threshold, the session terminates by consensus in that
\* round and the transcript holds no turn of round r or later.
C4_ThresholdEndsRound ==
    (PastCheckOfRound /\ FGeq(assessment.score, config.consensus_threshold)) =>
        /\ consensus_reached
        /\ pc \in {"coordination", "save", "done"}
        /\ \A i \in 1..Len(debate_round) : debate_round[i].round < round_num

\* C5: every debate session whose roles resolve ends after exactly one
\* coordination pass, the consensus summary iff consensus was reached and
\* the neutral analysis otherwise.
C5_ReachesCoordination ==
    (mode = "debate" /\ pc \in {"done", "raised"} /\ raised # "InvalidRoleError") =>
        /\ pc = "done"
        /\ Len(coordination) = 1
        /\ coordination[1].kind =
              IF consensus_reached THEN "consensus_summary" ELSE "neutral_analysis"

\* C6: with f factual and p philosophical keyword hits, the classification
\* is factual / true / min(1, f/3) when f > 2p, else philosophical / false /
\* min(1, p/3) when p > 2f, else mixed / (f >= p) / 0.5.
C6_Classification ==
    (mode = "classifier" /\ pc = "classified") =>
        LET f == Cardinality({kw \in FACTUAL_KEYWORDS : Occurs(kw, LowerText(question))})
            p == Cardinality({kw \in PHILOSOPHICAL_KEYWORDS :
                                Occurs(kw, LowerText(question))})
            r == question_analysis
        IN  IF f > 2 * p
            THEN /\ r.type = "factual"
                 /\ r.accuracy_required
                 /\ FEq(r.confidence, IF f >= 3 THEN FOne ELSE Frac(f, 3))
            ELSE IF p > 2 * f
            THEN /\ r.type = "philosophical"
                 /\ ~r.accuracy_required
                 /\ FEq(r.confidence, IF p >= 3 THEN FOne ELSE Frac(p, 3))
            ELSE /\ r.type = "mixed"
                 /\ r.accuracy_required = (f >= p)
                 /\ FEq(r.confidence, FHalf)

\* a topic with four factual hits has been classified: min(1, f/3) is capped
C6_Witness ==
    /\ mode = "classifier"
    /\ pc = "classified"
    /\ Cardinality(Hits(FACTUAL_KEYWORDS, question)) = 4
    /\ question_analysis.type = "factual"

\* C7: the topic "what color are a cat's feathers" is classified factual
\* with accuracy_required, and both round-1 prompts carry the
\* anti-hallucination block when accuracy is required and the
\* open-discussion block otherwise, in debate and in competition mode.
C7_CatFeathersFactual ==
    (mode \in {"debate", "competition"} /\ question_analysis # NoAnalysis) =>
        /\ question = CatFeathersEN =>
              /\ question_analysis.type = "factual"
              /\ question_analysis.accuracy_required
        /\ \A i \in 1..Len(prompts) :
              prompts[i].round = 1 =>
                 \E b \in (IF question_analysis.accuracy_required
                           THEN AntiHallucinationBlocks ELSE OpenDiscussionBlocks) :
                    PromptContains(prompts[i], b)

\* C8: the instruction block of the session's classification is in every
\* debater prompt of the session, opening and rebuttal, for both sides.
C8_EveryPromptCarriesBlock ==
    mode \in {"debate", "competition"} =>
        \A i \in 1..Len(prompts) : PromptContains(prompts[i], mode_instruction)

\* C9: whatever the opening-round outcomes, _debate_ask raises no exception
\* and the transcript after the opening round starts with exactly two
\* round-1 opening turns, pro then con, a placeholder standing for each
\* failed side; with both failed the session ends with those two turns.
C9_OpeningNeverRaises ==
    (mode = "debate" /\ raised # "InvalidRoleError") =>
        /\ raised = "none"
        /\ pc \in {"loop", "rebut1", "rebut2", "coordination", "save", "done"} =>
              /\ Len(debate_round) >= 2
              /\ \A i \in 1..2 : /\ debate_round[i].round = 1
                                 /\ debate_round[i].type = "opening"
              /\ debate_round[1].speaker = display_name1
              /\ debate_round[2].speaker = display_name2
              /\ \A i \in 3..Len(debate_round) : debate_round[i].round >= 2
              /\ (debate_round[1].content = Placeholder1
                  /\ debate_round[2].content = Placeholder2) => Len(debate_round) = 2

\* C10 (as amended): a debater failure never leaves the handler as an
\* exception; a failed opening call is recorded as a placeholder turn and a
\* failed rebuttal call appends no turn; after a failure the remaining
\* debater calls are dropped by the both-success gate alone, which issues the
\* call of a step exactly when the latest results of both sides succeeded.
C10_FailuresCaughtLocally ==
    [][mode = "debate" =>
        /\ (pc = "opening2" /\ pc' = "loop") =>
              /\ Len(debate_round') = 2
              /\ ~result1.success => debate_round'[1].content = Placeholder1
              /\ ~result2'.success => debate_round'[2].content = Placeholder2
        /\ (pc = "rebut1" /\ ~result1'.success) => debate_round' = debate_round
        /\ (pc = "rebut2" /\ ~result2'.success) => debate_round' = debate_round
        /\ (pc \in {"rebut1", "rebut2"} /\ ~(result1.success /\ result2.success)) =>
              /\ prompts' = prompts
              /\ debate_round' = debate_round
        /\ (pc \in {"rebut1", "rebut2"} /\ result1.success /\ result2.success) =>
              Len(prompts') = Len(prompts) + 1
        /\ pc \in {"opening1", "opening2", "rebut1", "rebut2"} =>
              /\ raised' = "none"
              /\ pc' # "raised"
      ]_vars

\* C10 as stated: every debater failure, of a rebuttal too, leaves a
\* placeholder turn in the transcript.
C10_EveryFailureRecorded ==
    [][(mode = "debate" /\ pc = "rebut1" /\ pc' = "rebut2"
            /\ result1.success /\ result2.success /\ ~result1'.success) =>
          Len(debate_round') = Len(debate_round) + 1
      ]_vars

\* the first rebuttal of round 2 failed after two successful openings, the
\* second was dropped by the gate, and round 3 begins on the two opening turns
C10_Witness ==
    /\ mode = "debate"
    /\ pc = "loop"
    /\ round_num = 3
    /\ ~result1.success
    /\ result2.success
    /\ Len(prompts) = 3
    /\ Len(debate_round) = 2
    /\ debate_round[1].content # Placeholder1

\* C11: in a rebuttal round a side's call is issued only if the latest call
\* of each side succeeded; once side A's call of a round has failed, side B's
\* step of that round issues no call and appends no turn.
C11_BothSuccessGate ==
    [][mode = "debate" =>
        /\ (pc \in {"rebut1", "rebut2"} /\ prompts' # prompts) =>
              /\ result1.success
              /\ result2.success
        /\ (pc = "rebut2" /\ ~result1.success) =>
              /\ prompts' = prompts
              /\ debate_round' = debate_round
              /\ result2' = result2
      ]_vars

\* both sides spoke in round 2, side A's call of round 3 failed and side B's
\* step of round 3 was skipped
C11_Witness ==
    /\ mode = "debate"
    /\ pc = "loop"
    /\ round_num = 4
    /\ ~result1.success
    /\ result2.success
    /\ Len(prompts) = 5
    /\ prompts[5].to = 1
    /\ Len(debate_round) = 4

\* C12: in a rebuttal round in which both sides speak, side A's turn of the
\* round is in the transcript before side B's call is issued, and the context
\* window of B's prompt ends with A's rebuttal of that same round.
C12_SequentialRebuttal ==
    [][(mode = "debate" /\ pc = "rebut2" /\ prompts' # prompts) =>
          LET p == prompts'[Len(prompts')]
              last == debate_round[Len(debate_round)]
          IN  /\ Len(prompts') = Len(prompts) + 1
              /\ p.to = 2
              /\ p.round = round_num
              /\ last.round = round_num
              /\ last.type = "rebuttal"
              /\ last.speaker = display_name1
              /\ prompts[Len(prompts)].to = 1
              /\ prompts[Len(prompts)].round = round_num
              /\ Len(p.context) >= 1
              /\ p.context[Len(p.context)] =
                    [round |-> round_num, speaker |-> display_name1,
                     content |-> Take(last.content, ContextChars)]
      ]_vars

\* both sides spoke in round 2: the fourth prompt is B's and its window ends
\* with A's round-2 rebuttal
C12_Witness ==
    /\ mode = "debate"
    /\ pc = "loop"
    /\ round_num = 3
    /\ Len(prompts) = 4
    /\ Len(debate_round) = 4
    /\ prompts[4].to = 2
    /\ prompts[4].context[Len(prompts[4].context)].round = 2
    /\ prompts[4].context[Len(prompts[4].context)].speaker = display_name1

\* C13: in every state of a debate or competition session the round numbers
\* of the transcript are non-decreasing in list order and no speaker (display
\* name) has two turns of one round, the two sides sharing model and role
\* included.
C13_TranscriptOrder ==
    mode \in {"debate", "competition"} =>
        /\ \A i, j \in 1..Len(debate_round) :
              i < j => debate_round[i].round <= debate_round[j].round
        /\ \A i, j \in 1..Len(debate_round) :
              (i < j /\ debate_round[i].round = debate_round[j].round) =>
                  debate_round[i].speaker # debate_round[j].speaker

\* C14 (as amended): the opening round always runs, so a debate transcript
\* holds no turn of a round greater than max(1, min(debate_rounds, 6)); every
\* rebuttal turn belongs to a round in 2..min(debate_rounds, 6), hence at most
\* 5 rebuttal rounds are run, and the loop variable never passes the ceiling
\* by more than one.
C14_RoundCeiling ==
    mode = "debate" =>
        LET budget == IF config.debate_rounds <= RoundCeiling
                      THEN config.debate_rounds ELSE RoundCeiling
        IN  /\ \A i \in 1..Len(debate_round) :
                  /\ debate_round[i].round >= 1
                  /\ debate_round[i].round <= (IF budget >= 1 THEN budget ELSE 1)
                  /\ debate_round[i].type = "rebuttal" =>
                        /\ debate_round[i].round >= 2
                        /\ debate_round[i].round <= budget
            /\ Cardinality({debate_round[i].round : i \in
                   {j \in 1..Len(debate_round) : debate_round[j].type = "rebuttal"}})
                  <= RoundCeiling - 1
            /\ round_num <= RoundCeiling + 1

\* C14 as stated: no turn of a round greater than min(debate_rounds, 6), for
\* every configured debate_rounds.
C14_NoTurnPastBudget ==
    mode = "debate" =>
        \A i \in 1..Len(debate_round) :
            debate_round[i].round <= Min2(config.debate_rounds, RoundCeiling)

\* a session configured with more rounds than the ceiling has run its five
\* rebuttal rounds and ended on round 6
C14_Witness ==
    /\ mode = "debate"
    /\ pc = "done"
    /\ config.debate_rounds > RoundCeiling
    /\ \E i \in 1..Len(debate_round) : debate_round[i].round = RoundCeiling
    /\ Cardinality({debate_round[i].round : i \in 1..Len(debate_round)}) = RoundCeiling

\* C15: every terminal state of a session carries a termination reason and
\* an analysis artifact: a session that ends has run its coordination or
\* judge pass, which left a report, a synthesized summary or a failure
\* message, or it was refused for an unresolvable role with that error's
\* message; no session ends on any other exception.
C15_TerminalCarriesRationale ==
    (mode \in {"debate", "competition"} /\ pc \in {"done", "raised"}) =>
        \/ /\ pc = "raised"
           /\ raised = "InvalidRoleError"
        \/ /\ pc = "done"
           /\ raised = "none"
           /\ Len(coordination) = 1
           /\ coordination[1].kind \in
                 {"consensus_summary", "neutral_analysis", "judgment"}
           /\ coordination[1].artifact \in
                 {"report", "synthetic_summary", "failure_message", "verdict"}

UnrecognizedInput(role_input) ==
    /\ role_input \notin RoleNames
    /\ ~(role_input \in DigitInputs /\ DigitValue(role_input) \in 1..Len(ROLE_LIST))

\* C17: for a role input that is empty or unrecognized, role selection
\* yields the default role of that side, the one the session then runs with.
C17_DefaultRoleFallback ==
    [][(mode = "roles" /\ pc = "select" /\ pc' = "selected") =>
          /\ UnrecognizedInput(role1) => role1' = config.default_role_1
          /\ UnrecognizedInput(role2) => role2' = config.default_role_2
      ]_vars

\* C18: for every catalog role and every alias of one, the prompt as first
\* speaker equals the prompt as second speaker unless the resolved role is
\* bianlunshou (the adversarial role), for which the two are the same base
\* text followed by the pro and by the con stance clause.
C18_PositionIndependence ==
    (mode = "roles" /\ pc = "prompted" /\ COMMON_TYPOS(role1) \in RoleNames) =>
        /\ Len(prompts) = 2
        /\ prompts[1] # <<>>
        /\ prompts[2] # <<>>
        /\ IF COMMON_TYPOS(role1) = "bianlunshou"
           THEN /\ prompts[1] # prompts[2]
                /\ Len(prompts[1]) = 2
                /\ Len(prompts[2]) = 2
                /\ prompts[1][1] = prompts[2][1]
                /\ prompts[1][2] = "position_pro"
                /\ prompts[2][2] = "position_con"
           ELSE prompts[1] = prompts[2]

\* the alias bianshou has been looked up for both positions and the two
\* prompts differ
C18_Witness ==
    /\ mode = "roles"
    /\ pc = "prompted"
    /\ role1 = "bianshou"
    /\ prompts[1] # prompts[2]

\* the lowercase words of three characters or more of a text
LongWords(text) == {Lower(text[i]) : i \in {j \in 1..Len(text) : Len(text[j]) >= 3}}

\* C19 (as amended): calculate_consensus(a, b) is |intersection| / |union| of
\* the two lowercase sets of words of length >= 3, and 0.0 when either set is
\* empty; hence 1.0 on two identical texts that hold such a word, 0.0 on two
\* identical texts that hold none, and 0.0 on texts sharing no such word.
C19_KeywordOverlap ==
    (mode = "detector" /\ pc = "detected" /\ ~coord_response.success) =>
        LET t1 == ContentFromEnd(debate_round, 1)
            t2 == ContentFromEnd(debate_round, 2)
            w1 == LongWords(t1)
            w2 == LongWords(t2)
            score == assessment.score
        IN  /\ (w1 = {} \/ w2 = {}) => FEq(score, FZero)
            /\ (w1 # {} /\ w2 # {}) =>
                  score[1] * Cardinality(w1 \cup w2) =
                      Cardinality(w1 \cap w2) * score[2]
            /\ (t1 = t2 /\ w1 # {}) => FEq(score, FOne)
            /\ (t1 = t2 /\ w1 = {}) => FEq(score, FZero)
            /\ w1 \cap w2 = {} => FEq(score, FZero)
            /\ InUnit(score)

\* C19 as stated: two identical strings score 1.0, whatever the string.
C19_IdenticalIsOne ==
    (mode = "detector" /\ pc = "detected" /\ ~coord_response.success
        /\ Len(debate_round) = 2
        /\ debate_round[1].content = debate_round[2].content) =>
        FEq(assessment.score, FOne)

\* the coordinator failed and the last two turns share two of four words
C19_Witness ==
    /\ mode = "detector"
    /\ pc = "detected"
    /\ ~coord_response.success
    /\ Len(debate_round) = 2
    /\ debate_round[1].content = TextA
    /\ debate_round[2].content = TextB
    /\ FEq(assessment.score, FHalf)

\* C20: with agree and disagree the hit counts of the two word lists, the
\* heuristic fallback returns agree / (agree + disagree) limited to
\* [0.2, 0.8] when there is a signal and exactly 0.5 when there is none; the
\* score is never outside [0.2, 0.8].
C20_FallbackRange ==
    (mode = "fallback" /\ pc = "fell_back") =>
        LET text == AllContent(debate_round)
            agree == Cardinality({i \in 1..Len(consensus_words) :
                                     Occurs(consensus_words[i], text)})
            disagree == Cardinality({i \in 1..Len(disagreement_words) :
                                        Occurs(disagreement_words[i], text)})
            total == agree + disagree
            score == assessment.score
        IN  /\ raised = "none"
            /\ FGeq(score, Frac(1, 5))
            /\ FLeq(score, Frac(4, 5))
            /\ total = 0 => FEq(score, FHalf)
            /\ total > 0 =>
                  IF 5 * agree < total THEN FEq(score, Frac(1, 5))
                  ELSE IF 5 * agree > 4 * total THEN FEq(score, Frac(4, 5))
                  ELSE FEq(score, Frac(agree, total))

\* a transcript with agreement signals only: the ratio 1 is cut to 0.8
C20_Witness ==
    /\ mode = "fallback"
    /\ pc = "fell_back"
    /\ Len(debate_round) = 2
    /\ SignalCount(consensus_words, AllContent(debate_round)) = 2
    /\ SignalCount(disagreement_words, AllContent(debate_round)) = 0
    /\ FEq(assessment.score, Frac(4, 5))

\* C21: when the coordinator call of a consensus check fails or returns an
\* empty text, the assessment the debate handler works with is the heuristic
\* keyword result over the whole transcript.
C21_FailureUsesHeuristic ==
    (/\ PastCheckOfRound
     /\ pc \in {"rebut1", "coordination"}
     /\ (~coord_response.success \/ coord_response.response = <<>>)) =>
        assessment = fallback_consensus_analysis(debate_round)

\* C22: the coordinator text is parsed by the tiers JSON object, then "NN%"
\* figure, then qualitative phrase, then the default 0.5, the first that
\* succeeds giving the score: a text whose braces do not decode and that holds
\* both a figure and a phrase scores the clamped figure, and a text without
\* braces and without a figure that holds a phrase scores that phrase's value.
C22_TierOrder ==
    (mode = "detector" /\ pc = "detected" /\ coord_response.success) =>
        LET text == coord_response.response
            json_start == Find(text, LBrace)
            json_end == RFind(text, RBrace) + 1
            braces == json_start # 0 /\ json_end > json_start
            decode_fails == braces /\ ~JsonDecodes(SubSeq(text, json_start, json_end - 1))
            phrase_value ==
                IF ContainsAny(text, PhraseHigh) THEN Frac(9, 10)
                ELSE IF ContainsAny(text, PhraseBasic) THEN Frac(3, 4)
                ELSE IF ContainsAny(text, PhrasePartial) THEN Frac(3, 5)
                ELSE IF ContainsAny(text, PhraseDisagree) THEN Frac(3, 10)
                ELSE Frac(1, 10)
            has_phrase == ContainsAny(text, PhraseHigh \cup PhraseBasic \cup PhrasePartial
                                               \cup PhraseDisagree \cup PhraseTotal)
        IN  /\ (decode_fails /\ HasPct(text) /\ has_phrase) =>
                  FEq(assessment.score, Frac(Clamp100(FirstPct(text)), 100))
            /\ (~braces /\ ~HasPct(text) /\ has_phrase) =>
                  FEq(assessment.score, phrase_value)

\* C23: when the piece from the first "{" to the last "}" of the coordinator
\* text decodes to an object whose consensus_percentage is a number p, the
\* detector returns the score clamp(p, 0, 100) / 100 from the JSON tier,
\* whatever other members the object has or lacks and whatever figure or
\* phrase the text holds outside or beside it.
C23_JsonTierWins ==
    (mode = "detector" /\ pc # "detect" /\ coord_response.success) =>
        LET text == coord_response.response
            json_start == Find(text, LBrace)
            json_end == RFind(text, RBrace) + 1
            js == SubSeq(text, json_start, json_end - 1)
            members == {i \in 2..(Len(js) - 1) : FieldKey(js[i]) = "consensus_percentage"}
            p == FieldVal(js[CHOOSE i \in members : \A j \in members : j <= i])
        IN  (/\ json_start # 0
             /\ json_end > json_start
             /\ JsonDecodes(js)
             /\ members # {}
             /\ p.t = "num") =>
                /\ pc = "detected"
                /\ raised = "none"
                /\ assessment.analysis.kind # "raw_text"
                /\ assessment.score[2] = 100
                /\ assessment.score[1] =
                      (IF p.v < 0 THEN 0 ELSE IF p.v > 100 THEN 100 ELSE p.v)

\* an object with an unknown member, no optional member and the percentage
\* 150 has been parsed to the score 1
C23_Witness ==
    /\ mode = "detector"
    /\ pc = "detected"
    /\ coord_response = ClientResult("ok", <<LBrace, "x=1", "cp=150", RBrace>>)
    /\ FEq(assessment.score, FOne)

\* C24: in a debate, whichever coordination pass runs, a coordinator call
\* that fails or returns an empty text leaves a synthetic summary built from
\* the rationale of the last consensus assessment, and the session goes on
\* to the save step.
C24_SyntheticSummaryOnFailure ==
    (/\ mode = "debate"
     /\ pc \in {"save", "done"}
     /\ (~coord_response.success \/ Strip(coord_response.response) = <<>>)) =>
        /\ Len(coordination) = 1
        /\ coordination[1].artifact = "synthetic_summary"
        /\ coordination[1].rationale = consensus_analysis

\* C25: a failed coordinator or judge call does not abort finalization: the
\* session reaches the save step with its whole transcript, and the analysis
\* artifact of the failed pass is a synthesized placeholder summary.
C25_FailureDegradesToSummary ==
    (/\ mode \in {"debate", "competition"}
     /\ pc \in {"save", "done"}
     /\ ~coord_response.success) =>
        /\ raised = "none"
        /\ Len(coordination) = 1
        /\ coordination[1].artifact = "synthetic_summary"

\* C26: a competition of n >= 1 rounds whose roles resolve runs no consensus
\* check and has no gate: its transcript is always pro, con, pro, con, ...
\* with the i-th turn in round (i + 1) \div 2, it holds exactly 2n turns when
\* the judge is called, whatever calls failed, and the judge is called once.
C26_CompetitionRunsToCount ==
    (mode = "competition" /\ config.rounds >= 1 /\ pc \notin {"start", "raised"}) =>
        /\ \A i \in 1..Len(debate_round) :
              /\ debate_round[i].round = (i + 1) \div 2
              /\ debate_round[i].side = (IF i % 2 = 1 THEN "pro" ELSE "con")
              /\ debate_round[i].speaker =
                    (IF i % 2 = 1 THEN display_name1 ELSE display_name2)
        /\ Len(debate_round) <= 2 * config.rounds
        /\ Len(prompts) = Len(debate_round)
        /\ pc \in {"judge", "save", "done"} => Len(debate_round) = 2 * config.rounds
        /\ consensus_reached = FALSE
        /\ assessment = NoAssessment
        /\ IF pc \in {"save", "done"}
           THEN /\ Len(coordination) = 1
                /\ coordination[1].kind = "judgment"
           ELSE /\ coordination = <<>>
                /\ coord_response = NoResult

\* a competition of two rounds has ended with its four turns although the
\* con side failed in round 1 and the pro side in round 2
C26_Witness ==
    /\ mode = "competition"
    /\ pc = "done"
    /\ config.rounds = 2
    /\ Len(debate_round) = 4
    /\ debate_round[2].content = ErrorText
    /\ debate_round[3].content = ErrorText
    /\ debate_round[4].content # ErrorText

\* C27: in the parallel mode, for every interleaving of the two workers and
\* every outcome of each call, the joined list holds one entry per request,
\* the entry of a request depends on that request's outcome alone and carries
\* its model name, so that with two different models each entry is told from
\* the other by its model field whatever the order of the list.
C27_ParallelJoin ==
    mode = "parallel" =>
        LET results == debate_round
            expected(f, m, text) ==
                /\ \E i \in 1..Len(results) :
                      /\ results[i].model = m
                      /\ results[i].success = (f.outcome = "ok")
                      /\ f.outcome = "ok" => results[i].response = text
                      /\ (results[i].kind = "execution_error") = (f.outcome = "raise")
            joined == {i \in {1, 2} :
                          (IF i = 1 THEN result1 ELSE result2).state = "joined"}
        IN  /\ Len(results) = Cardinality(joined)
            /\ raised = "none"
            /\ result1.state = "joined" => expected(result1, config.model_1, TextA)
            /\ result2.state = "joined" => expected(result2, config.model_2, TextB)
            /\ \A i \in 1..Len(results) : results[i].model \in {config.model_1, config.model_2}
            /\ (Len(results) = 2 /\ config.model_1 # config.model_2) =>
                  results[1].model # results[2].model
            /\ pc = "returned" =>
                  /\ Len(results) = 2
                  /\ Len(history) = (IF config.save_history THEN 1 ELSE 0)
                  /\ config.save_history => history[1].results = results

\* the second request finished and was joined first, with a result; the
\* first raised: the list starts with model 2's entry and ends with the
\* entry made for model 1's exception
C27_Witness ==
    /\ mode = "parallel"
    /\ pc = "returned"
    /\ config.model_1 # config.model_2
    /\ debate_round[1].model = config.model_2
    /\ debate_round[1].success
    /\ debate_round[2].model = config.model_1
    /\ debate_round[2].kind = "execution_error"

C30_CheckStep ==
    /\ mode = "debate"
    /\ pc = "loop"
    /\ round_num <= max_rounds
    /\ CheckEnabled
    /\ pc' \in {"rebut1", "coordination"}

\* C30: only the latest assessment is kept. A consensus check that hands on
\* replaces the stored rationale by the rationale of its own assessment and
\* decides on its own score alone: the debate ends exactly when that score
\* reaches the threshold, and no check starts with consensus already reached.
\* The consensus summary runs only after such a check, and the rationale it is
\* handed is that of the latest assessment, whose score reached the threshold.
C30_LatestAssessmentOnly ==
    /\ [][C30_CheckStep =>
            LET res == analyze_debate_consensus(coord_response', debate_round)
            IN  /\ ~consensus_reached
                /\ assessment' = res
                /\ consensus_analysis' = res.analysis
                /\ consensus_reached' = FGeq(res.score, config.consensus_threshold)
                /\ (pc' = "coordination") = consensus_reached']_vars
    /\ [](mode = "debate" =>
            /\ pc \in {"loop", "rebut1", "rebut2"} => ~consensus_reached
            /\ consensus_reached =>
                  /\ consensus_analysis = assessment.analysis
                  /\ FGeq(assessment.score, config.consensus_threshold)
            /\ \A i \in 1..Len(coordination) :
                  IF consensus_reached
                  THEN /\ coordination[i].kind = "consensus_summary"
                       /\ coordination[i].rationale = assessment.analysis
                  ELSE coordination[i].kind = "neutral_analysis")

\* the check of round 2 stayed under the threshold, the check of round 3
\* crossed it, and the summary was handed the rationale of that check
C30_Witness ==
    /\ mode = "debate"
    /\ pc = "done"
    /\ consensus_reached
    /\ round_num = 3
    /\ config.consensus_check_start_round = 2
    /\ Len(debate_round) = 4
    /\ Len(coordination) = 1
    /\ coordination[1].rationale = assessment.analysis


\* the openings are over and the latest call of a side has failed
C31_GateClosed ==
    /\ mode = "debate"
    /\ pc \in {"loop", "rebut1", "rebut2", "coordination", "save", "done"}
    /\ ~(result1.success /\ result2.success)

\* C31: the both-success gate is sticky. Once the openings are over and the
\* latest call of a side has failed, no step of the session issues a debater
\* call, renews a result or appends a turn, in that round or in any later
\* one: the transcript stays the one of the moment of the failure, which after
\* an opening failure is the two opening turns, the placeholder standing for
\* each failed side (both opening calls are issued whatever the first
\* returns).
C31_StickyGate ==
    /\ [][C31_GateClosed =>
            /\ debate_round' = debate_round
            /\ prompts' = prompts
            /\ result1' = result1
            /\ result2' = result2]_vars
    /\ [](C31_GateClosed =>
            /\ Len(debate_round) >= 2
            /\ (Len(prompts) = 2) =>
                  /\ Len(debate_round) = 2
                  /\ debate_round[1].content =
                        (IF result1.success THEN result1.response ELSE Placeholder1)
                  /\ debate_round[2].content =
                        (IF result2.success THEN result2.response ELSE Placeholder2))

\* side 2 failed in round 2 after side 1 had spoken; rounds 3 to 6 passed
\* without a call and the session ended on the three turns of that moment
C31_Witness ==
    /\ mode = "debate"
    /\ pc = "done"
    /\ config.debate_rounds = RoundCeiling
    /\ round_num = RoundCeiling + 1
    /\ result1.success
    /\ ~result2.success
    /\ Len(prompts) = 4
    /\ Len(debate_round) = 3
    /\ debate_round[3].round = 2


\* a side has failed and the loop stands at the head of a round whose check
\* is due
C32_ClosedAndEligible ==
    /\ C31_GateClosed
    /\ pc = "loop"
    /\ round_num <= max_rounds
    /\ config.enable_early_stop
    /\ config.ai_consensus_analysis
    /\ round_num >= config.consensus_check_start_round

\* C32: a failed side does not stop the round loop. With the gate closed,
\* the head of every eligible round the loop reaches still issues the
\* consensus check, over the transcript as the failure left it; a round whose
\* check does not end the debate passes through both skipped rebuttal steps to
\* the next round; the loop is left only by consensus or at the round limit,
\* and the session that ends has run the consensus summary or the neutral
\* analysis accordingly: no failure ends it.
C32_LoopOutlivesFailure ==
    /\ [][C31_GateClosed =>
            /\ C32_ClosedAndEligible =>
                  /\ consensus_prompt' = debate_summary(debate_round)
                  /\ debate_round' = debate_round
                  /\ pc' \in {"rebut1", "coordination", "raised"}
                  /\ (pc' = "coordination") = consensus_reached'
            /\ pc = "rebut1" => pc' = "rebut2"
            /\ pc = "rebut2" => (pc' = "loop" /\ round_num' = round_num + 1)
            /\ (pc = "loop" /\ pc' = "coordination") =>
                  (consensus_reached' \/ round_num > max_rounds)
            /\ pc' = "raised" => C32_ClosedAndEligible]_vars
    /\ []((C31_GateClosed /\ pc \in {"save", "done"}) =>
            /\ raised = "none"
            /\ consensus_reached \/ round_num > max_rounds
            /\ Len(coordination) = 1
            /\ coordination[1].kind =
                  (IF consensus_reached THEN "consensus_summary" ELSE "neutral_analysis"))

\* both opening calls failed, the check of round 3 read the two placeholder
\* turns, found consensus, and the consensus summary ran
C32_Witness ==
    /\ mode = "debate"
    /\ pc = "done"
    /\ ~result1.success
    /\ ~result2.success
    /\ Len(debate_round) = 2
    /\ debate_round[1].content = Placeholder1
    /\ debate_round[2].content = Placeholder2
    /\ round_num = 3
    /\ consensus_reached
    /\ Len(consensus_prompt) = 2
    /\ coordination[1].kind = "consensus_summary"


\* C33: consensus checks are made only at the head of a round r with
\* max(2, consensus_check_start_round) <= r <= min(debate_rounds, 6), and only
\* with early stop and AI analysis switched on; none is made before the two
\* opening turns are in the transcript; the rounds checked increase strictly,
\* so a session makes at most max_rounds - 1 checks; and a session with
\* debate_rounds <= 1 ends on exactly its two opening turns, without a check,
\* after the neutral-analysis pass.
C33_ChecksOnlyWhenEligible ==
    /\ [][(mode = "debate" /\ checks' # checks) =>
            /\ pc = "loop"
            /\ Len(debate_round) >= 2
            /\ debate_round[1].type = "opening" /\ debate_round[2].type = "opening"
            /\ checks' = Append(checks, round_num)]_vars
    /\ [](mode = "debate" =>
            /\ \A i \in 1..Len(checks) :
                  /\ checks[i] >= 2
                  /\ checks[i] >= config.consensus_check_start_round
                  /\ checks[i] <= config.debate_rounds
                  /\ checks[i] <= RoundCeiling
                  /\ i > 1 => checks[i] > checks[i - 1]
            /\ checks # <<>> =>
                  /\ config.enable_early_stop
                  /\ config.ai_consensus_analysis
                  /\ Len(checks) <= Min2(config.debate_rounds, RoundCeiling) - 1
            /\ (config.debate_rounds <= 1 /\ pc \in {"coordination", "save", "done"}) =>
                  /\ checks = <<>>
                  /\ Len(debate_round) = 2
                  /\ Len(prompts) = 2
                  /\ \A i \in 1..Len(coordination) :
                        coordination[i].kind = "neutral_analysis"
            /\ pc \in {"save", "done"} => Len(coordination) = 1)

\* a debate of six rounds checked from round 3 on has made its four checks
C33_Witness ==
    /\ mode = "debate"
    /\ pc = "done"
    /\ config.debate_rounds = RoundCeiling
    /\ config.consensus_check_start_round = 3
    /\ checks = <<3, 4, 5, 6>>
    /\ Len(debate_round) = 10


\* C34: ask_both_models lets no exception through. Called with a mode it
\* does not know, with a role that does not resolve, or when the consensus
\* check raises in the middle of a debate, it returns the empty list, whatever
\* the transcript held at that moment; a debate that runs to its end returns
\* its transcript; nothing is returned before the handler has ended.
C34_NeverPropagates ==
    mode # "competition" =>
        /\ returned.state # "propagated"
        /\ (raised # "none") = (pc = "raised")
        /\ pc = "raised" =>
              /\ raised \in {"ValueError", "InvalidRoleError", "TypeError"}
              /\ returned = Returned(<<>>)
              /\ (raised = "ValueError") = (mode \notin AskModes)
        /\ pc = "done" =>
              /\ returned = Returned(debate_round)
              /\ Len(returned.value) >= 2
        /\ pc \notin {"raised", "done"} => returned = NotReturned

\* the check of round 3 raised on a transcript of four turns and the caller
\* was handed the empty list
C34_Witness ==
    /\ mode = "debate"
    /\ pc = "raised"
    /\ raised = "TypeError"
    /\ round_num = 3
    /\ Len(debate_round) = 4
    /\ returned.state = "returned"
    /\ returned.value = <<>>


\* the loop of the game is left by a break
C35_Break == pc \in {"s_ask", "s_answer", "s_guess"} /\ pc' = "s_final"

\* C35 (as amended): the game loop ends within max_rounds rounds. Round k is
\* asked by role1 and model 1 when k is odd, by role2 and model 2 when k is
\* even. The loop is left early exactly on the player's answer "end", on a
\* guess the player confirms, or on a failed question call; a guess is made
\* only in a round divisible by 3, after a successful question that was
\* answered. The history grows only by the question and answer of a round,
\* one pair for every round completed. After the loop the finalization step
\* runs in every case and the game returns the empty list, but the
\* coordinator is asked for the summary only when the history is not empty.
C35_SoupTerminates ==
    /\ [](/\ round_num >= 0
          /\ round_num <= config.turtle_soup_max_rounds
          /\ \A i \in 1..Len(prompts) :
                /\ prompts[i].round \in 1..round_num
                /\ prompts[i].role =
                      (IF prompts[i].round % 2 = 1 THEN SoupRole(role1, "zhentan")
                       ELSE SoupRole(role2, "tuilizhe"))
                /\ prompts[i].model =
                      (IF prompts[i].round % 2 = 1 THEN config.model_1 ELSE config.model_2)
                /\ prompts[i].kind = "guess" => prompts[i].round % 3 = 0
          /\ Len(history) <= 2 * round_num
          /\ pc = "s_loop" => Len(history) = 2 * round_num
          /\ pc = "done" =>
                /\ returned = Returned(<<>>)
                /\ Len(coordination) = 1
                /\ coordination[1].kind = "soup_summary"
                /\ (coordination[1].artifact = "not_asked") = (history = <<>>))
    /\ [][/\ C35_Break =
               \/ (pc = "s_ask" /\ ~result1'.success)
               \/ (pc = "s_answer" /\ history' = history)
               \/ (pc = "s_guess" /\ result2'.confirmed)
          /\ (pc = "s_loop" /\ pc' = "s_final") =
                (pc = "s_loop" /\ round_num = config.turtle_soup_max_rounds)
          /\ pc' = "s_guess" =>
                /\ pc = "s_answer"
                /\ result1.success
                /\ round_num % 3 = 0
                /\ history' # history
          /\ history' # history =>
                /\ pc = "s_answer"
                /\ Len(history') = Len(history) + 2
                /\ SubSeq(history', 1, Len(history)) = history
                /\ history'[Len(history) + 1] = [kind |-> "wen", text |-> result1.response]
                /\ history'[Len(history) + 2].kind = "da"
          /\ pc = "s_final" =>
                /\ pc' = "done"
                /\ Len(coordination') = Len(coordination) + 1]_vars
    /\ <>(pc = "done")

\* C35 as stated: the summary is asked for after the loop in every case.
C35_SummaryInEveryCase ==
    pc = "done" =>
        /\ Len(coordination) = 1
        /\ coordination[1].artifact # "not_asked"

\* the player confirmed the guess of round 3, made by the side that asked in
\* round 3, and the summary of the three pairs was asked for
C35_Witness ==
    /\ mode = "turtle_soup"
    /\ pc = "done"
    /\ round_num = 3
    /\ config.turtle_soup_max_rounds > 3
    /\ result2.confirmed
    /\ Len(history) = 6
    /\ Len(prompts) = 4
    /\ prompts[2].model = config.model_2
    /\ prompts[4].kind = "guess"
    /\ prompts[4].model = config.model_1
    /\ coordination[1].artifact = "report"


\* C36: HistoryManager keeps pending entries until they are written. A
\* call of save_history that succeeds leaves the buffer empty and the file a
\* JSON object whose sessions list is the list read from the file followed
\* by the pending entries in their order; a call that fails (an I/O error,
\* a file that does not decode) or raises leaves the buffer as it was.
\* At every moment no entry is held twice: while the file is readable the
\* entries handed over so far are, in order and once each, the file's new
\* sessions followed by the buffer.
EntryNumbers(entries) == [i \in 1..Len(entries) |-> entries[i].n]
NewSessions == SelectSeq(data_sessions, LAMBDA e : e.n > 0)
C36_SaveStep ==
    [][round_num' = round_num =>
         /\ pc' = "saved" =>
               /\ history_file.kind \in {"absent", "object", "no_sessions"}
               /\ history' = <<>>
               /\ history_file' = HistoryFile("object", data_sessions \o history)
         /\ pc' \in {"save_failed", "save_raised"} => history' = history]_vars
C36_PendingUntilWritten ==
    /\ C36_SaveStep
    /\ [](/\ \A i \in 1..Len(history) : \A j \in 1..Len(history) :
                i < j => history[i].n < history[j].n
          /\ \A i \in 1..Len(history) : history[i].n \in 1..round_num
          /\ history_file.kind \in {"absent", "object", "no_sessions"} =>
                EntryNumbers(NewSessions \o history) = [i \in 1..round_num |-> i])
C36_Witness ==
    /\ mode = "history"
    /\ pc = "saved"
    /\ round_num = MaxEntries
    /\ history = <<>>
    /\ history_file = HistoryFile("object", <<OldEntry>> \o [i \in 1..MaxEntries |-> HistoryEntry(i)])


\* the lists of roles the validator is tried on: every non-empty prefix of
\* the catalog, and the catalog in reverse order
RoleLists ==
    {SubSeq(ROLE_LIST, 1, n) : n \in 1..Len(ROLE_LIST)}
        \cup {[i \in 1..Len(ROLE_LIST) |-> ROLE_LIST[Len(ROLE_LIST) + 1 - i]]}

\* what the validator is to return for an input and a list: the numbered
\* role for the decimal numeral of a position of the list, the name itself
\* for a name of the list, otherwise the first role
ExpectedRole(role_input, available_roles) ==
    IF \E i \in 1..Len(available_roles) : RoleKey(i) = role_input
    THEN available_roles[CHOOSE i \in 1..Len(available_roles) : RoleKey(i) = role_input]
    ELSE IF role_input \in Members(available_roles) THEN role_input
    ELSE available_roles[1]

\* C37 as stated: whatever way the interactive interface takes the two
\* roles, the roles it hands on are names of the catalog.
C37_EveryInterfaceRoleInCatalog ==
    (mode = "roles" /\ pc \in {"selected", "soup_selected"}) =>
        /\ role1 \in RoleNames
        /\ role2 \in RoleNames

\* C37: for every input and every non-empty list of roles,
\* validate_role_input returns a member of the list: the numbered role for
\* the numeral of a position, the name itself for a name of the list,
\* otherwise the first role. The roles that _select_debate_roles hands to
\* the debate and to the competition are therefore names of the catalog for
\* which get_role_prompt yields a persona on either position, the condition
\* under which InvalidRoleError is not raised.
C37_ValidatedRolesResolve ==
    /\ [](mode = "roles" =>
            \A available_roles \in RoleLists : \A role_input \in RoleInputs :
                /\ validate_role_input(role_input, available_roles)
                       \in Members(available_roles)
                /\ validate_role_input(role_input, available_roles)
                       = ExpectedRole(role_input, available_roles))
    /\ [][(mode = "roles" /\ pc = "select" /\ pc' = "selected") =>
            /\ role1' = ExpectedRole(role1, ROLE_LIST)
            /\ role2' = ExpectedRole(role2, ROLE_LIST)
            /\ role1' \in RoleNames
            /\ role2' \in RoleNames
            /\ get_role_prompt(role1', TRUE) # <<>>
            /\ get_role_prompt(role2', FALSE) # <<>>]_vars

\* both roles have gone through the validator: the second role of the
\* catalog on side 1, the third on side 2
C37_Witness ==
    /\ mode = "roles"
    /\ pc = "selected"
    /\ role1 = ROLE_LIST[2]
    /\ role2 = ROLE_LIST[3]

=============================================================================
